---- MODULE Spec2Model ----
(***************************************************************************)
(* Annotation synchronisation engine of lodestone: the document tree with  *)
(* entity-reference marks, the highlight list, the relationship list, the  *)
(* global highlight map and the recently-removed set.                      *)
(*                                                                         *)
(* Text is a sequence of one-character strings.  A text node is            *)
(* [text, marks]; marks = <<>> stands for a node without a marks key.      *)
(* A mark is [id, labelType, type]; "" stands for a missing attribute.     *)
(* A block is [type, content]; a document is a sequence of blocks.         *)
(***************************************************************************)
EXTENDS Integers, Sequences, FiniteSets, TLC

VARIABLES
    \* ---- pure-function harness (SpecPure)
    ppc,            \* position of the harness
    inDoc,          \* input document
    inAnns,         \* input highlight list
    out1,           \* createDocumentWithMarks(inDoc, inAnns)
    out2,           \* createDocumentWithMarks(out1, inAnns)
    extracted,      \* extractHighlightsFromContentMarks(out1)
    regCall,        \* the last call of a highlight map function (SpecRegistry)
    effective,      \* the last result of getEffectiveContent (SpecLoad)
    \* ---- shared module state of the program
    highlightMap,           \* utils/highlightMap.ts: id -> label ("" = no entry)
    recentlyRemoved,        \* SessionManager.recentlyRemovedHighlights
    \* ---- editing session (Spec)
    editorDoc,              \* the document of the editor view
    editorState,            \* Editor: the document of the state of useRemirror
    stored,                 \* db.sessions: the session's analysedContent
    session,                \* EditorPage: useLiveQuery snapshot of the session
    inflight,               \* updateAnalysedContent calls in progress, oldest first
    timers,                 \* pending setTimeout callbacks
    pendingRemoval,         \* HighlightButtons: pendingRemoval
    pendingHighlightRemoval,\* EditorPage: pendingHighlightRemoval
    freshUsed,              \* number of ids crypto.randomUUID() has handed out
    liveDirty,              \* db.sessions was written since the live queries ran
    error,                  \* EditorPage: the error state shown in the banner ("" = null)
    \* ---- deleteHighlightFromDB (SpecDelete)
    dpc,                    \* position of the call
    currentRecord,          \* the record passed to the call
    editorContent,          \* db.editorContent: the record of that id
    deletedId,              \* the highlight id passed to the call
    \* ---- history, recorded for the properties
    age,                    \* ms since the last markHighlightAsRemoved(id); -1: never
    last,                   \* what the last step did
    removal                 \* the toolbar removals so far

pureVars == <<ppc, inDoc, inAnns, out1, out2, extracted, regCall, effective>>
globVars == <<highlightMap, recentlyRemoved>>
sessVars == <<editorDoc, editorState, stored, session, inflight, timers,
              pendingRemoval, pendingHighlightRemoval, freshUsed, liveDirty,
              error, age, last, removal>>
delVars == <<dpc, currentRecord, editorContent, deletedId>>
vars == <<pureVars, globVars, sessVars, delVars>>

----------------------------------------------------------------------------
(* Bounds of the model *)

MaxAnns == 2
MaxNodes == 2
MaxBlockLen == 3
MaxInFlight == 2
MaxFresh == 1
Quantum == 250

\* setTimeout delays of the program, in ms
GraceMs == 500
SaveDelayMs == 50
GateResetMs == 500

Chars == {"a", "b"}
FreshPool == <<"n1", "n2">>
Ids == {"h1", "h2", "h3"} \cup {FreshPool[i] : i \in DOMAIN FreshPool}
Labels == {"claim", "evidence"}
DefaultLabel == "claim"

----------------------------------------------------------------------------
(* Generic helpers *)

MinOf(S) == CHOOSE x \in S : \A y \in S : x <= y

MinN(a, b) == IF a < b THEN a ELSE b

Range(s) == {s[i] : i \in DOMAIN s}

RECURSIVE Concat(_)
Concat(ss) == IF ss = <<>> THEN <<>> ELSE Head(ss) \o Concat(Tail(ss))

\* String.prototype.indexOf on a non-empty needle: 0-based, -1 when absent
IndexOf(hay, needle) ==
    LET cands == {i \in 0..(Len(hay) - Len(needle)) :
                     SubSeq(hay, i + 1, i + Len(needle)) = needle}
    IN IF cands = {} THEN -1 ELSE MinOf(cands)

\* String.prototype.includes
Includes(hay, needle) == IndexOf(hay, needle) >= 0

\* empty values of the session records
NoStored == [content |-> <<>>, highlights |-> <<>>, relationships |-> <<>>,
             highlightCount |-> 0,
             sessionHighlightCount |-> 0]
NoLast == [event |-> "none", origin |-> "none", passes |-> 0, emitted |-> 0,
           putBefore |-> <<>>, putGiven |-> <<>>]
NoRecord == [id |-> 0, highlights |-> <<>>, relationships |-> <<>>]
NoRemoval == [ids |-> {}, before |-> <<>>, clean |-> FALSE, edited |-> FALSE]
\* no call of getEffectiveContent yet
NoEffective == [content |-> <<>>, highlights |-> <<>>, relationships |-> <<>>,
                hasHighlights |-> FALSE, passes |-> 0]
NoCall == [op |-> "none", id |-> "", labelType |-> "", before |-> <<>>,
           result |-> "", outcome |-> "none"]

----------------------------------------------------------------------------
(* utils/highlightMap.ts *)

EmptyMap == [i \in Ids |-> ""]

\* variant: the label is stored without the check for an empty label
setHighlightAnyLabel(map, id, labelType) ==
    IF id = "" THEN map
    ELSE [map EXCEPT ![id] = labelType]

setHighlight(map, id, labelType) ==
    IF id = "" THEN map
    ELSE IF labelType = "" THEN map
    ELSE [map EXCEPT ![id] = labelType]

getHighlight(map, id) == IF id = "" THEN "" ELSE map[id]

deleteHighlight(map, id) == IF id = "" THEN map ELSE [map EXCEPT ![id] = ""]

\* the value deleteHighlight returns
deleteHighlightResult(map, id) == IF id = "" THEN FALSE ELSE map[id] # ""

clearHighlights(map) == EmptyMap

RECURSIVE SetAll(_, _)
SetAll(map, hs) ==
    IF hs = <<>> THEN map
    ELSE SetAll(IF Head(hs).id # "" /\ Head(hs).labelType # ""
                THEN setHighlight(map, Head(hs).id, Head(hs).labelType)
                ELSE map,
                Tail(hs))

----------------------------------------------------------------------------
(* services/annotation/documentUtils.ts: createDocumentWithMarks *)

ParagraphText(block) == Concat([i \in DOMAIN block.content |-> block.content[i].text])

\* variant: one annotation that is not found leaves the paragraph without any
ParagraphAnnotationsStrict(ptext, anns) ==
    IF \A k \in DOMAIN anns : anns[k].text # <<>> /\ Includes(ptext, anns[k].text)
    THEN anns ELSE <<>>

\* first pass: the annotations whose text the paragraph includes, in list order
RECURSIVE ParagraphAnnotations(_, _)
ParagraphAnnotations(ptext, anns) ==
    IF anns = <<>> THEN <<>>
    ELSE LET a == Head(anns)
             rest == ParagraphAnnotations(ptext, Tail(anns))
         IN IF a.text # <<>> /\ Includes(ptext, a.text) THEN <<a>> \o rest ELSE rest

\* the highlights of one text node that starts at pos
RECURSIVE NodeHighlights(_, _, _)
NodeHighlights(marks, text, pos) ==
    IF marks = <<>> THEN <<>>
    ELSE LET m == Head(marks)
             labelType == IF m.labelType # "" THEN m.labelType ELSE m.type
             rest == NodeHighlights(Tail(marks), text, pos)
         IN IF m.id # "" /\ labelType # ""
            THEN <<[id |-> m.id, labelType |-> labelType, text |-> text,
                    startIndex |-> pos, endIndex |-> pos + Len(text)]>> \o rest
            ELSE rest

\* the existing highlights of a paragraph: pos advances over every text node
RECURSIVE ExistingHighlights(_, _)
ExistingHighlights(nodes, pos) ==
    IF nodes = <<>> THEN <<>>
    ELSE LET n == Head(nodes)
         IN (IF n.marks # <<>> /\ n.text # <<>>
             THEN NodeHighlights(n.marks, n.text, pos) ELSE <<>>)
            \o ExistingHighlights(Tail(nodes), pos + Len(n.text))

\* variant: no check for an existing highlight of the same id
NewHighlightDupNever(all, a) == FALSE

NewHighlightDup(all, a) == \E i \in DOMAIN all : all[i].id = a.id

\* the annotations that are not duplicates (by id), located by indexOf
RECURSIVE AddNewHighlights(_, _, _)
AddNewHighlights(all, pas, ptext) ==
    IF pas = <<>> THEN all
    ELSE LET a == Head(pas)
             textIndex == IndexOf(ptext, a.text)
         IN IF ~NewHighlightDup(all, a) /\ textIndex >= 0
            THEN AddNewHighlights(
                     Append(all, [id |-> a.id, labelType |-> a.labelType, text |-> a.text,
                                  startIndex |-> textIndex,
                                  endIndex |-> textIndex + Len(a.text)]),
                     Tail(pas), ptext)
            ELSE AddNewHighlights(all, Tail(pas), ptext)

\* Array.prototype.sort((a, b) => a.startIndex - b.startIndex): stable
RECURSIVE InsertByStart(_, _)
InsertByStart(sorted, h) ==
    IF sorted = <<>> THEN <<h>>
    ELSE IF Head(sorted).startIndex <= h.startIndex
         THEN <<Head(sorted)>> \o InsertByStart(Tail(sorted), h)
         ELSE <<h>> \o sorted

RECURSIVE SortByStart(_, _)
SortByStart(done, todo) ==
    IF todo = <<>> THEN done
    ELSE SortByStart(InsertByStart(done, Head(todo)), Tail(todo))

\* variant: the highlighted part runs to the end of its segment
SplitSegmentToEnd(segs, h) ==
    LET hit == {i \in DOMAIN segs :
                   /\ h.startIndex - segs[i].startPos >= 0
                   /\ h.startIndex - segs[i].startPos < Len(segs[i].text)}
    IN IF hit = {} THEN segs
       ELSE LET i == MinOf(hit)
                seg == segs[i]
                rs == h.startIndex - seg.startPos
                before == IF rs > 0
                          THEN <<[text |-> SubSeq(seg.text, 1, rs),
                                  highlights |-> seg.highlights,
                                  startPos |-> seg.startPos]>>
                          ELSE <<>>
                mid == <<[text |-> SubSeq(seg.text, rs + 1, Len(seg.text)),
                          highlights |-> Append(seg.highlights,
                                                [id |-> h.id, labelType |-> h.labelType]),
                          startPos |-> seg.startPos + rs]>>
            IN SubSeq(segs, 1, i - 1) \o before \o mid \o SubSeq(segs, i + 1, Len(segs))

\* variant: the text after the highlighted part is not pushed back
SplitSegmentNoTail(segs, h) ==
    LET hit == {i \in DOMAIN segs :
                   /\ h.startIndex - segs[i].startPos >= 0
                   /\ h.startIndex - segs[i].startPos < Len(segs[i].text)}
    IN IF hit = {} THEN segs
       ELSE LET i == MinOf(hit)
                seg == segs[i]
                rs == h.startIndex - seg.startPos
                re == h.endIndex - seg.startPos
                before == IF rs > 0
                          THEN <<[text |-> SubSeq(seg.text, 1, rs),
                                  highlights |-> seg.highlights,
                                  startPos |-> seg.startPos]>>
                          ELSE <<>>
                mid == <<[text |-> SubSeq(seg.text, rs + 1, MinN(re, Len(seg.text))),
                          highlights |-> Append(seg.highlights,
                                                [id |-> h.id, labelType |-> h.labelType]),
                          startPos |-> seg.startPos + rs]>>
            IN SubSeq(segs, 1, i - 1) \o before \o mid \o SubSeq(segs, i + 1, Len(segs))

\* one round of the splitting loop: the first segment the highlight starts in
SplitSegment(segs, h) ==
    LET hit == {i \in DOMAIN segs :
                   /\ h.startIndex - segs[i].startPos >= 0
                   /\ h.startIndex - segs[i].startPos < Len(segs[i].text)}
    IN IF hit = {} THEN segs
       ELSE LET i == MinOf(hit)
                seg == segs[i]
                rs == h.startIndex - seg.startPos
                re == h.endIndex - seg.startPos
                before == IF rs > 0
                          THEN <<[text |-> SubSeq(seg.text, 1, rs),
                                  highlights |-> seg.highlights,
                                  startPos |-> seg.startPos]>>
                          ELSE <<>>
                mid == <<[text |-> SubSeq(seg.text, rs + 1, MinN(re, Len(seg.text))),
                          highlights |-> Append(seg.highlights,
                                                [id |-> h.id, labelType |-> h.labelType]),
                          startPos |-> seg.startPos + rs]>>
                after == IF re < Len(seg.text)
                         THEN <<[text |-> SubSeq(seg.text, re + 1, Len(seg.text)),
                                 highlights |-> seg.highlights,
                                 startPos |-> seg.startPos + re]>>
                         ELSE <<>>
            IN SubSeq(segs, 1, i - 1) \o before \o mid \o after
                   \o SubSeq(segs, i + 1, Len(segs))

RECURSIVE SplitAll(_, _)
SplitAll(segs, hs) ==
    IF hs = <<>> THEN segs ELSE SplitAll(SplitSegment(segs, Head(hs)), Tail(hs))

SegmentNode(seg) ==
    [text |-> seg.text,
     marks |-> [k \in DOMAIN seg.highlights |->
                   [id |-> seg.highlights[k].id,
                    labelType |-> seg.highlights[k].labelType,
                    type |-> seg.highlights[k].labelType]]]

\* second pass for one paragraph
AnnotateParagraph(block, pas) ==
    LET ptext == ParagraphText(block)
        existing == ExistingHighlights(block.content, 0)
        all == SortByStart(<<>>, AddNewHighlights(existing, pas, ptext))
        segs == SplitAll(<<[text |-> ptext, highlights |-> <<>>, startPos |-> 0]>>, all)
    IN [block EXCEPT !.content = [k \in DOMAIN segs |-> SegmentNode(segs[k])]]

createDocumentWithMarks(doc, anns) ==
    IF anns = <<>> THEN doc
    ELSE [i \in DOMAIN doc |->
             IF doc[i].type = "paragraph"
             THEN LET pas == ParagraphAnnotations(ParagraphText(doc[i]), anns)
                  IN IF pas # <<>> /\ doc[i].content # <<>>
                     THEN AnnotateParagraph(doc[i], pas)
                     ELSE doc[i]
             ELSE doc[i]]

\* the highlight map after createDocumentWithMarks (its forEach over annotations)
MapAfterCreate(map, anns) == SetAll(map, anns)

----------------------------------------------------------------------------
(* utils/sessionManager.ts: extractHighlightsFromContentMarks *)

\* variant: a mark id that was already seen gives another highlight
RECURSIVE ExtractMarksNoSeen(_, _, _, _, _)
ExtractMarksNoSeen(marks, text, pos, removed, acc) ==
    IF marks = <<>> THEN acc
    ELSE LET m == Head(marks)
         IN IF m.id = "" \/ m.id \in removed
            THEN ExtractMarksNoSeen(Tail(marks), text, pos, removed, acc)
            ELSE LET savedType == getHighlight(acc.map, m.id)
                     labelType == IF m.labelType # "" THEN m.labelType
                                  ELSE IF m.type # "" THEN m.type
                                  ELSE IF savedType # "" THEN savedType
                                  ELSE DefaultLabel
                 IN ExtractMarksNoSeen(Tail(marks), text, pos, removed,
                        [hl |-> Append(acc.hl,
                                    [id |-> m.id, labelType |-> labelType, text |-> text,
                                     startIndex |-> pos, endIndex |-> pos + Len(text)]),
                         seen |-> acc.seen \cup {m.id},
                         map |-> setHighlight(acc.map, m.id, labelType)])

\* variant: the highlight map is not consulted for the label
RECURSIVE ExtractMarksNoRegistry(_, _, _, _, _)
ExtractMarksNoRegistry(marks, text, pos, removed, acc) ==
    IF marks = <<>> THEN acc
    ELSE LET m == Head(marks)
         IN IF m.id = "" \/ m.id \in acc.seen \/ m.id \in removed
            THEN ExtractMarksNoRegistry(Tail(marks), text, pos, removed, acc)
            ELSE LET labelType == IF m.labelType # "" THEN m.labelType
                                  ELSE IF m.type # "" THEN m.type
                                  ELSE DefaultLabel
                 IN ExtractMarksNoRegistry(Tail(marks), text, pos, removed,
                        [hl |-> Append(acc.hl,
                                    [id |-> m.id, labelType |-> labelType, text |-> text,
                                     startIndex |-> pos, endIndex |-> pos + Len(text)]),
                         seen |-> acc.seen \cup {m.id},
                         map |-> setHighlight(acc.map, m.id, labelType)])

\* variant: the label is not written to the highlight map
RECURSIVE ExtractMarksNoWriteBack(_, _, _, _, _)
ExtractMarksNoWriteBack(marks, text, pos, removed, acc) ==
    IF marks = <<>> THEN acc
    ELSE LET m == Head(marks)
         IN IF m.id = "" \/ m.id \in acc.seen \/ m.id \in removed
            THEN ExtractMarksNoWriteBack(Tail(marks), text, pos, removed, acc)
            ELSE LET savedType == getHighlight(acc.map, m.id)
                     labelType == IF m.labelType # "" THEN m.labelType
                                  ELSE IF m.type # "" THEN m.type
                                  ELSE IF savedType # "" THEN savedType
                                  ELSE DefaultLabel
                 IN ExtractMarksNoWriteBack(Tail(marks), text, pos, removed,
                        [hl |-> Append(acc.hl,
                                    [id |-> m.id, labelType |-> labelType, text |-> text,
                                     startIndex |-> pos, endIndex |-> pos + Len(text)]),
                         seen |-> acc.seen \cup {m.id},
                         map |-> acc.map])

\* the marks of one text node; acc = [hl, seen, map]
RECURSIVE ExtractMarks(_, _, _, _, _)
ExtractMarks(marks, text, pos, removed, acc) ==
    IF marks = <<>> THEN acc
    ELSE LET m == Head(marks)
         IN IF m.id = "" \/ m.id \in acc.seen \/ m.id \in removed
            THEN ExtractMarks(Tail(marks), text, pos, removed, acc)
            ELSE LET savedType == getHighlight(acc.map, m.id)
                     labelType == IF m.labelType # "" THEN m.labelType
                                  ELSE IF m.type # "" THEN m.type
                                  ELSE IF savedType # "" THEN savedType
                                  ELSE DefaultLabel
                 IN ExtractMarks(Tail(marks), text, pos, removed,
                        [hl |-> Append(acc.hl,
                                    [id |-> m.id, labelType |-> labelType, text |-> text,
                                     startIndex |-> pos, endIndex |-> pos + Len(text)]),
                         seen |-> acc.seen \cup {m.id},
                         map |-> setHighlight(acc.map, m.id, labelType)])

\* processNode over the children of a block: a child without marks returns 0
RECURSIVE ExtractNodes(_, _, _, _)
ExtractNodes(nodes, pos, removed, acc) ==
    IF nodes = <<>> THEN acc
    ELSE LET n == Head(nodes)
         IN IF n.text # <<>> /\ n.marks # <<>>
            THEN ExtractNodes(Tail(nodes), pos + Len(n.text), removed,
                              ExtractMarks(n.marks, n.text, pos, removed, acc))
            ELSE ExtractNodes(Tail(nodes), pos, removed, acc)

RECURSIVE ExtractBlocks(_, _, _)
ExtractBlocks(blocks, removed, acc) ==
    IF blocks = <<>> THEN acc
    ELSE ExtractBlocks(Tail(blocks), removed,
                       ExtractNodes(Head(blocks).content, 0, removed, acc))

\* variant: the recently-removed set is not consulted
ExtractIgnoringRemoved(doc, map, removed) ==
    ExtractBlocks(doc, {}, [hl |-> <<>>, seen |-> {}, map |-> map])

\* [hl |-> the highlights returned, map |-> the highlight map afterwards]
extractHighlightsFromContentMarks(doc, map, removed) ==
    ExtractBlocks(doc, removed, [hl |-> <<>>, seen |-> {}, map |-> map])

----------------------------------------------------------------------------
(* The editor view (ProseMirror document of one paragraph).  Marks are kept *)
(* per character, and text nodes are the maximal runs of equal mark lists.  *)

RECURSIVE NodeCells(_)
NodeCells(nodes) ==
    IF nodes = <<>> THEN <<>>
    ELSE [p \in 1..Len(Head(nodes).text) |->
             [ch |-> Head(nodes).text[p], marks |-> Head(nodes).marks]]
         \o NodeCells(Tail(nodes))

RECURSIVE CellNodes(_)
CellNodes(cells) ==
    IF cells = <<>> THEN <<>>
    ELSE LET rest == CellNodes(Tail(cells))
             c == Head(cells)
         IN IF rest # <<>> /\ Head(rest).marks = c.marks
            THEN <<[text |-> <<c.ch>> \o Head(rest).text, marks |-> c.marks]>> \o Tail(rest)
            ELSE <<[text |-> <<c.ch>>, marks |-> c.marks]>> \o rest

DocCells(doc) == NodeCells(doc[1].content)
CellsDoc(cells) == <<[type |-> "paragraph", content |-> CellNodes(cells)]>>

HasMark(cell, id) == \E k \in DOMAIN cell.marks : cell.marks[k].id = id

\* tr.removeMark(from, to, markType): every entity-reference mark in the range
RemoveMarkRange(cells, from, to) ==
    [p \in DOMAIN cells |->
        IF from < p /\ p <= to THEN [cells[p] EXCEPT !.marks = <<>>] ELSE cells[p]]

\* tr.addMark(from, to, mark): the mark joins the marks of the range
AddMarkRange(cells, from, to, mark) ==
    [p \in DOMAIN cells |->
        IF from < p /\ p <= to /\ mark \notin Range(cells[p].marks)
        THEN [cells[p] EXCEPT !.marks = Append(cells[p].marks, mark)]
        ELSE cells[p]]

\* the ids of the marks of the document, in order of first appearance
RECURSIVE IdsInOrder(_, _)
IdsInOrder(marks, seen) ==
    IF marks = <<>> THEN <<>>
    ELSE IF Head(marks).id = "" \/ Head(marks).id \in seen
         THEN IdsInOrder(Tail(marks), seen)
         ELSE <<Head(marks).id>> \o IdsInOrder(Tail(marks), seen \cup {Head(marks).id})

AllMarks(cells) == Concat([p \in DOMAIN cells |-> cells[p].marks])

\* EntityReferenceExtension.getEntityReferencesAt: the references whose joined
\* range [from, to] holds the character the cursor is in
SpanFrom(cells, id) == MinOf({p \in DOMAIN cells : HasMark(cells[p], id)}) - 1
SpanTo(cells, id) == CHOOSE p \in DOMAIN cells :
                         /\ HasMark(cells[p], id)
                         /\ \A q \in DOMAIN cells : HasMark(cells[q], id) => q <= p

RECURSIVE RefsOf(_, _, _)
RefsOf(ids, cells, cursor) ==
    IF ids = <<>> THEN <<>>
    ELSE LET id == Head(ids)
             ref == [id |-> id, from |-> SpanFrom(cells, id), to |-> SpanTo(cells, id)]
         IN (IF ref.from < cursor /\ cursor <= ref.to THEN <<ref>> ELSE <<>>)
            \o RefsOf(Tail(ids), cells, cursor)

getEntityReferencesAt(doc, cursor) ==
    RefsOf(IdsInOrder(AllMarks(DocCells(doc)), {}), DocCells(doc), cursor)

DocIds(doc) == Range(IdsInOrder(AllMarks(DocCells(doc)), {}))

----------------------------------------------------------------------------
(* components/Editor.tsx *)

\* the effect that re-builds the highlight map from the marks of the state
RECURSIVE SyncMarks(_, _)
SyncMarks(map, marks) ==
    IF marks = <<>> THEN map
    ELSE SyncMarks(IF Head(marks).id # "" /\ Head(marks).labelType # ""
                   THEN setHighlight(map, Head(marks).id, Head(marks).labelType)
                   ELSE map,
                   Tail(marks))

NodeMarks(doc) == Concat([k \in DOMAIN doc[1].content |-> doc[1].content[k].marks])

SyncHighlightMap(doc) == SyncMarks(EmptyMap, NodeMarks(doc))

\* handleChange: the highlight map entries written while collecting the
\* highlights of the state (the first mark of each id)
RECURSIVE CollectMarks(_, _, _)
CollectMarks(map, marks, seen) ==
    IF marks = <<>> THEN map
    ELSE LET m == Head(marks)
         IN IF m.id # "" /\ m.labelType # "" /\ m.id \notin seen
            THEN CollectMarks(setHighlight(map, m.id, m.labelType), Tail(marks),
                              seen \cup {m.id})
            ELSE CollectMarks(map, Tail(marks), seen)

\* json.content[0].content is a non-empty array
HasContent(doc) == doc # <<>> /\ doc[1].content # <<>>

\* the onSave wiring of HighlightButtons: (json) => onChangeJSON?.(json)
OnSaveOptions(skipExtraction) == FALSE

----------------------------------------------------------------------------
(* components/Editor.tsx: the effect that applies the highlights prop to    *)
(* the initial content and sets the result as the editor state              *)

\* the first block whose text includes the highlight's text (0: none)
FoundBlock(doc, text) ==
    LET hit == {i \in DOMAIN doc : /\ doc[i].content # <<>>
                                   /\ Includes(ParagraphText(doc[i]), text)}
    IN IF hit = {} THEN 0 ELSE MinOf(hit)

\* the paragraph content that replaces the block's: before, highlighted, after
HighlightedContent(ptext, h) ==
    LET highlightIndex == IndexOf(ptext, h.text)
        endIndex == highlightIndex + Len(h.text)
    IN (IF highlightIndex > 0
        THEN <<[text |-> SubSeq(ptext, 1, highlightIndex), marks |-> <<>>]>>
        ELSE <<>>)
       \o <<[text |-> h.text,
             marks |-> <<[id |-> h.id, labelType |-> h.labelType,
                          type |-> h.labelType]>>]>>
       \o (IF endIndex < Len(ptext)
           THEN <<[text |-> SubSeq(ptext, endIndex + 1, Len(ptext)), marks |-> <<>>]>>
           ELSE <<>>)

RECURSIVE ApplyInitialHighlights(_, _)
ApplyInitialHighlights(doc, highlights) ==
    IF highlights = <<>> THEN doc
    ELSE LET h == Head(highlights)
             i == IF h.text = <<>> \/ h.labelType = "" THEN 0
                  ELSE FoundBlock(doc, h.text)
         IN ApplyInitialHighlights(
                IF i = 0 THEN doc
                ELSE [doc EXCEPT ![i].content =
                         HighlightedContent(ParagraphText(doc[i]), h)],
                Tail(highlights))

\* the editor state after the effect ran for props (content, highlights)
StateAfterProps(state, content, highlights) ==
    IF content = <<>> \/ highlights = <<>> THEN state
    ELSE ApplyInitialHighlights(content, highlights)

----------------------------------------------------------------------------
(* pages/EditorPage.tsx: handleEditorChange, up to its first await.          *)
(* st = [doc, map, removed, ops, passes, emitted, timers, gate, fresh]:      *)
(* the view document, the highlight map, the recently-removed set, the       *)
(* updateAnalysedContent calls started, the extraction passes run, the       *)
(* calls of onChangeJSON, the timers, pendingHighlightRemoval, the ids used  *)

NewOp(content, highlights, relationships, origin) ==
    [content |-> content, highlights |-> highlights,
     relationships |-> relationships, origin |-> origin,
     pc |-> "get", before |-> <<>>, update |-> NoStored]

NewTimer(kind, id, delay, rels) ==
    [kind |-> kind, id |-> id, left |-> delay, rels |-> rels]

handleEditorChange(st, json, skipExtraction, rels, origin) ==
    LET st1 == IF skipExtraction
               THEN [st EXCEPT !.gate = TRUE,
                               !.timers = @ \cup {NewTimer("gate", "", GateResetMs, <<>>)}]
               ELSE st
    IN IF ~HasContent(json) THEN st1
       ELSE IF skipExtraction \/ st.gate
       THEN [st1 EXCEPT !.ops = Append(@, NewOp(json, <<>>, rels, origin))]
       ELSE LET r == extractHighlightsFromContentMarks(json, st1.map, st1.removed)
            IN [st1 EXCEPT !.map = r.map,
                           !.passes = @ + 1,
                           !.ops = Append(@, NewOp(json, r.hl, rels, origin))]

\* Editor.handleChange for a transaction that is not a selection-only change
handleChange(st, rels, origin) ==
    LET st1 == [st EXCEPT !.map = CollectMarks(@, NodeMarks(st.doc), {})]
    IN IF HasContent(st.doc)
       THEN handleEditorChange([st1 EXCEPT !.emitted = @ + 1], st.doc, FALSE,
                               rels, origin)
       ELSE st1

\* view.dispatch(tr): the view takes the new document, Remirror calls onChange
Dispatch(st, cells, rels, origin) ==
    handleChange([st EXCEPT !.doc = CellsDoc(cells)], rels, origin)

----------------------------------------------------------------------------
(* utils/sessionManager.ts *)

\* variant: the timer callback leaves the set alone
ExpireNothing(removed, id) == removed

\* the timer callback of markHighlightAsRemoved
Expire(removed, id) == removed \ {id}

\* markHighlightAsRemoved: add the id, and a timer that deletes it
markHighlightAsRemoved(st, id) ==
    [st EXCEPT !.removed = @ \cup {id},
               !.timers = @ \cup {NewTimer("unmark", id, GraceMs, <<>>)}]

\* variant: the content is scanned whatever list the caller gave
UpdateOfExtracting(sess, op, map, removed) ==
    LET r == extractHighlightsFromContentMarks(op.content, map, removed)
    IN [update |-> [content |-> createDocumentWithMarks(op.content, r.hl),
                    highlights |-> r.hl,
                    relationships |-> op.relationships,
                    highlightCount |-> Len(r.hl),
                    sessionHighlightCount |-> Len(r.hl)],
        map |-> IF r.hl # <<>> THEN MapAfterCreate(r.map, r.hl) ELSE r.map,
        passes |-> 1]

\* variant: an empty list is never taken as a deliberate removal
UpdateOfNoRemoval(sess, op, map, removed) ==
    LET r == extractHighlightsFromContentMarks(op.content, map, removed)
        extracts == op.highlights = <<>>
        highlightsToUse == IF extracts THEN r.hl ELSE op.highlights
        highlightsWereRemoved == Len(sess.highlights) > Len(op.highlights)
        applies == extracts \/ ~highlightsWereRemoved
        map1 == IF extracts THEN r.map ELSE map
    IN [update |-> [content |-> IF applies
                                THEN createDocumentWithMarks(op.content, highlightsToUse)
                                ELSE op.content,
                    highlights |-> highlightsToUse,
                    relationships |-> op.relationships,
                    highlightCount |-> Len(highlightsToUse),
                    sessionHighlightCount |-> Len(highlightsToUse)],
        map |-> IF applies /\ highlightsToUse # <<>>
                THEN MapAfterCreate(map1, highlightsToUse) ELSE map1,
        passes |-> IF extracts THEN 1 ELSE 0]

\* variant: the highlightCount of the session record is left as it was
UpdateOfStaleCount(sess, op, map, removed) ==
    LET isDeliberateHighlightRemoval ==
            op.highlights = <<>> /\ sess.highlights # <<>>
        r == extractHighlightsFromContentMarks(op.content, map, removed)
        extracts == ~isDeliberateHighlightRemoval /\ op.highlights = <<>>
        highlightsToUse == IF isDeliberateHighlightRemoval THEN <<>>
                           ELSE IF extracts THEN r.hl
                           ELSE op.highlights
        highlightsWereRemoved == Len(sess.highlights) > Len(op.highlights)
        applies == /\ ~isDeliberateHighlightRemoval
                   /\ (extracts \/ ~highlightsWereRemoved)
        map1 == IF extracts THEN r.map ELSE map
    IN [update |-> [content |-> IF applies
                                THEN createDocumentWithMarks(op.content, highlightsToUse)
                                ELSE op.content,
                    highlights |-> highlightsToUse,
                    relationships |-> op.relationships,
                    highlightCount |-> Len(highlightsToUse),
                    sessionHighlightCount |-> sess.sessionHighlightCount],
        map |-> IF applies /\ highlightsToUse # <<>>
                THEN MapAfterCreate(map1, highlightsToUse) ELSE map1,
        passes |-> IF extracts THEN 1 ELSE 0]

\* updateAnalysedContent after db.sessions.get returned sess: the record it
\* will write, the highlight map afterwards and the extraction passes it ran
UpdateOf(sess, op, map, removed) ==
    LET isDeliberateHighlightRemoval ==
            op.highlights = <<>> /\ sess.highlights # <<>>
        r == extractHighlightsFromContentMarks(op.content, map, removed)
        extracts == ~isDeliberateHighlightRemoval /\ op.highlights = <<>>
        highlightsToUse == IF isDeliberateHighlightRemoval THEN <<>>
                           ELSE IF extracts THEN r.hl
                           ELSE op.highlights
        highlightsWereRemoved == Len(sess.highlights) > Len(op.highlights)
        applies == /\ ~isDeliberateHighlightRemoval
                   /\ (extracts \/ ~highlightsWereRemoved)
        map1 == IF extracts THEN r.map ELSE map
    IN [update |-> [content |-> IF applies
                                THEN createDocumentWithMarks(op.content, highlightsToUse)
                                ELSE op.content,
                    highlights |-> highlightsToUse,
                    relationships |-> op.relationships,
                    highlightCount |-> Len(highlightsToUse),
                    sessionHighlightCount |-> Len(highlightsToUse)],
        map |-> IF applies /\ highlightsToUse # <<>>
                THEN MapAfterCreate(map1, highlightsToUse) ELSE map1,
        passes |-> IF extracts THEN 1 ELSE 0]

\* variant: the stored content is scanned whatever the stored list holds
EffectiveContentExtracting(sess, map, removed) ==
    LET r == extractHighlightsFromContentMarks(sess.content, map, removed)
    IN [highlights |-> r.hl, relationships |-> sess.relationships,
        map |-> r.map, passes |-> 1]

\* getEffectiveContent: the stored highlights, or those extracted from the
\* stored content when the stored list is empty, with the stored relationships
EffectiveContent(sess, map, removed) ==
    LET r == extractHighlightsFromContentMarks(sess.content, map, removed)
    IN IF sess.highlights # <<>>
       THEN [highlights |-> sess.highlights, relationships |-> sess.relationships,
             map |-> map, passes |-> 0]
       ELSE [highlights |-> r.hl, relationships |-> sess.relationships,
             map |-> r.map, passes |-> 1]

----------------------------------------------------------------------------
(* Inputs of the pure-function harness *)

TextsUpTo(n) == UNION {[1..k -> Chars] : k \in 1..n}

MarkH1 == [id |-> "h1", labelType |-> "claim", type |-> "claim"]
MarkH2 == [id |-> "h2", labelType |-> "", type |-> "evidence"]
MarkBare == [id |-> "h3", labelType |-> "", type |-> ""]
MarkLists == {<<>>, <<MarkH1>>, <<MarkH2>>, <<MarkH1, MarkH2>>, <<MarkBare>>}

TextNodes == [text : TextsUpTo(MaxBlockLen), marks : MarkLists]
PlainNodes == [text : TextsUpTo(MaxBlockLen), marks : {<<>>}]

BlockLen(c) == Len(Concat([i \in DOMAIN c |-> c[i].text]))

Contents(nodes) ==
    {c \in UNION {[1..k -> nodes] : k \in 0..MaxNodes} : BlockLen(c) <= MaxBlockLen}

\* one block whose nodes carry any marks, or two paragraphs of plain text
MarkedDocs == {<<[type |-> t, content |-> c]>> :
                  t \in {"paragraph", "heading"}, c \in Contents(TextNodes)}
PlainBlocks == {[type |-> "paragraph", content |-> c] :
                   c \in UNION {[1..k -> PlainNodes] : k \in 0..1}}
PlainDocs == {<<b1, b2>> : b1 \in PlainBlocks, b2 \in PlainBlocks}
PureDocs == MarkedDocs \cup PlainDocs

LabelOf(id) == IF id = "h1" THEN "claim" ELSE "evidence"
AnnTexts == TextsUpTo(2)
Annotations == {[id |-> i, labelType |-> LabelOf(i), text |-> t] :
                   i \in {"h1", "h3"}, t \in AnnTexts}
AnnLists == UNION {[1..k -> Annotations] : k \in 0..MaxAnns}

\* the session variables of a specification that runs no session
SessIdle ==
    /\ editorDoc = <<>>
    /\ editorState = <<>>
    /\ stored = NoStored
    /\ session = NoStored
    /\ inflight = <<>>
    /\ timers = {}
    /\ pendingRemoval = FALSE
    /\ pendingHighlightRemoval = FALSE
    /\ freshUsed = 0
    /\ liveDirty = FALSE
    /\ error = ""
    /\ age = [i \in Ids |-> -1]
    /\ last = NoLast
    /\ removal = NoRemoval

DeleteIdle ==
    /\ dpc = "idle"
    /\ currentRecord = NoRecord
    /\ editorContent = NoRecord
    /\ deletedId = ""

PureIdle ==
    /\ ppc = "idle"
    /\ inDoc = <<>>
    /\ inAnns = <<>>
    /\ out1 = <<>>
    /\ out2 = <<>>
    /\ extracted = <<>>
    /\ regCall = NoCall /\ effective = NoEffective

----------------------------------------------------------------------------
(* SpecPure: the pure functions applied to bounded inputs *)

PureInit ==
    /\ ppc = "start"
    /\ inDoc \in PureDocs
    /\ inAnns \in AnnLists
    /\ out1 = <<>>
    /\ out2 = <<>>
    /\ extracted = <<>>
    /\ regCall = NoCall /\ effective = NoEffective
    /\ highlightMap = EmptyMap
    /\ recentlyRemoved = {}
    /\ SessIdle
    /\ DeleteIdle

PApply ==
    /\ ppc = "start"
    /\ out1' = createDocumentWithMarks(inDoc, inAnns)
    /\ highlightMap' = IF inAnns = <<>> THEN highlightMap
                       ELSE MapAfterCreate(highlightMap, inAnns)
    /\ ppc' = "applied"
    /\ UNCHANGED <<inDoc, inAnns, out2, extracted, recentlyRemoved, regCall,
                   effective, sessVars, delVars>>

PReapply ==
    /\ ppc = "applied"
    /\ out2' = createDocumentWithMarks(out1, inAnns)
    /\ highlightMap' = IF inAnns = <<>> THEN highlightMap
                       ELSE MapAfterCreate(highlightMap, inAnns)
    /\ ppc' = "reapplied"
    /\ UNCHANGED <<inDoc, inAnns, out1, extracted, recentlyRemoved, regCall,
                   effective, sessVars, delVars>>

PExtract ==
    /\ ppc = "reapplied"
    /\ LET r == extractHighlightsFromContentMarks(out1, highlightMap, recentlyRemoved)
       IN /\ extracted' = r.hl
          /\ highlightMap' = r.map
    /\ ppc' = "extracted"
    /\ UNCHANGED <<inDoc, inAnns, out1, out2, recentlyRemoved, regCall,
                   effective, sessVars, delVars>>

PureNext == PApply \/ PReapply \/ PExtract

SpecPure == PureInit /\ [][PureNext]_vars

----------------------------------------------------------------------------
(* Spec: an editing session in analysis mode on one stored session          *)

Mark(id, labelType) == [id |-> id, labelType |-> labelType, type |-> labelType]
H1 == Mark("h1", "claim")
H2 == Mark("h2", "evidence")
H3 == Mark("h3", "claim")
TextNode(t, ms) == [text |-> t, marks |-> ms]
Paragraph(nodes) == <<[type |-> "paragraph", content |-> nodes]>>

\* stored documents over the text abc
SessionDocs ==
    { Paragraph(<<TextNode(<<"a">>, <<H1>>), TextNode(<<"b">>, <<>>),
                  TextNode(<<"c">>, <<H2>>)>>),
      Paragraph(<<TextNode(<<"a", "b">>, <<H1, H2>>), TextNode(<<"c">>, <<>>)>>),
      Paragraph(<<TextNode(<<"a">>, <<H1>>), TextNode(<<"b">>, <<H1, H2>>),
                  TextNode(<<"c">>, <<H2>>)>>),
      Paragraph(<<TextNode(<<"a">>, <<H1>>), TextNode(<<"b", "c">>, <<>>)>>),
      Paragraph(<<TextNode(<<"a">>, <<H1, H3>>), TextNode(<<"b">>, <<H3>>),
                  TextNode(<<"c">>, <<>>)>>) }

Relationship(s, t) == [sourceHighlightId |-> s, targetHighlightId |-> t]

\* stored relationship lists: between highlights of the document
SessionRels(doc) ==
    {<<>>} \cup {<<Relationship(p[1], p[2])>> :
                     p \in {q \in DocIds(doc) \X DocIds(doc) : q[1] # q[2]}}

\* the stored record of a document whose reconciliation has finished
StoredOf(doc, rels) ==
    LET hl == extractHighlightsFromContentMarks(doc, EmptyMap, {}).hl
    IN [content |-> createDocumentWithMarks(doc, hl), highlights |-> hl,
        relationships |-> rels, highlightCount |-> Len(hl),
        sessionHighlightCount |-> Len(hl)]

\* the page is loaded on a stored session: the editor is mounted on the
\* effective content and its effects have run
SessInit ==
    /\ \E doc \in SessionDocs : \E rels \in SessionRels(doc) :
          /\ StoredOf(doc, rels).content = doc
          /\ stored = StoredOf(doc, rels)
    /\ session = stored
    /\ editorDoc = stored.content
    /\ editorState = StateAfterProps(stored.content, stored.content, stored.highlights)
    /\ highlightMap = SyncHighlightMap(editorState)
    /\ recentlyRemoved = {}
    /\ inflight = <<>>
    /\ timers = {}
    /\ pendingRemoval = FALSE
    /\ pendingHighlightRemoval = FALSE
    /\ freshUsed = 0
    /\ liveDirty = FALSE
    /\ error = ""
    /\ age = [i \in Ids |-> -1]
    /\ last = NoLast
    /\ removal = NoRemoval
    /\ PureIdle
    /\ DeleteIdle

StOf == [doc |-> editorDoc, map |-> highlightMap, removed |-> recentlyRemoved,
         ops |-> <<>>, passes |-> 0, emitted |-> 0, timers |-> timers,
         gate |-> pendingHighlightRemoval, fresh |-> freshUsed]

Quiescent == inflight = <<>> /\ timers = {} /\ ~pendingRemoval /\ ~liveDirty

\* an event handler that dispatched transactions has returned with st, and
\* React has rendered the Editor and run its highlight map sync effect
AfterEvent(st, event) ==
    /\ Len(inflight) + Len(st.ops) <= MaxInFlight
    /\ st.fresh <= MaxFresh
    /\ editorDoc' = st.doc
    /\ editorState' = st.doc
    /\ highlightMap' = SyncHighlightMap(st.doc)
    /\ recentlyRemoved' = st.removed
    /\ inflight' = inflight \o st.ops
    /\ timers' = st.timers
    /\ pendingHighlightRemoval' = st.gate
    /\ freshUsed' = st.fresh
    /\ last' = [NoLast EXCEPT !.event = event, !.passes = st.passes,
                              !.emitted = st.emitted]

RemoveAt(seq, j) == SubSeq(seq, 1, j - 1) \o SubSeq(seq, j + 1, Len(seq))

\* the user deletes the text of one text node
DeleteNode(j) ==
    /\ j \in DOMAIN editorDoc[1].content
    /\ AfterEvent(Dispatch(StOf, NodeCells(RemoveAt(editorDoc[1].content, j)),
                           session.relationships, "edit"), "edit")
    /\ removal' = [removal EXCEPT !.clean = FALSE, !.edited = TRUE]
    /\ UNCHANGED <<stored, session, pendingRemoval, liveDirty, age, error,
                   pureVars, delVars>>

\* the user replaces the text by itself as plain text
PastePlain ==
    /\ NodeMarks(editorDoc) # <<>>
    /\ AfterEvent(Dispatch(StOf, RemoveMarkRange(DocCells(editorDoc), 0,
                                                 Len(DocCells(editorDoc))),
                           session.relationships, "edit"), "edit")
    /\ removal' = [removal EXCEPT !.clean = FALSE, !.edited = TRUE]
    /\ UNCHANGED <<stored, session, pendingRemoval, liveDirty, age, error,
                   pureVars, delVars>>

\* Editor.handleChange for a selection-only transaction, and the sync effect
SelectionChange ==
    /\ editorState' = editorDoc
    /\ highlightMap' = SyncHighlightMap(editorDoc)
    /\ last' = [NoLast EXCEPT !.event = "selection"]
    /\ UNCHANGED <<editorDoc, recentlyRemoved, stored, session, inflight, timers,
                   pendingRemoval, pendingHighlightRemoval, freshUsed, liveDirty,
                   age, removal, error,
                   pureVars, delVars>>

\* HighlightButtons.handleHighlight, removal branch: the forEach that
\* re-creates the other highlights of the same range under a new id
RECURSIVE Recreate(_, _, _, _, _)
Recreate(st, others, highlight, labelId, rels) ==
    IF others = <<>> THEN st
    ELSE LET otherLabelType == getHighlight(st.map, Head(others).id)
             newId == FreshPool[MinN(st.fresh + 1, Len(FreshPool))]
             st1 == [st EXCEPT !.fresh = @ + 1,
                               !.map = setHighlight(@, newId, otherLabelType)]
             cells == AddMarkRange(DocCells(st1.doc), highlight.from, highlight.to,
                                   Mark(newId, otherLabelType))
         IN IF otherLabelType # "" /\ otherLabelType # labelId
            THEN Recreate(Dispatch(st1, cells, rels, "remove"), Tail(others),
                          highlight, labelId, rels)
            ELSE Recreate(st, Tail(others), highlight, labelId, rels)

\* the forEach over the highlights of the clicked label at the cursor
RECURSIVE RemoveEach(_, _, _, _, _)
RemoveEach(st, hs, highlightsAt, labelId, rels) ==
    IF hs = <<>> THEN st
    ELSE LET highlight == Head(hs)
             SamePosition(h) == /\ h.from = highlight.from
                                /\ h.to = highlight.to
                                /\ h.id # highlight.id
             allHighlightsAtPosition == SelectSeq(highlightsAt, SamePosition)
             st1 == Dispatch(st, RemoveMarkRange(DocCells(st.doc), highlight.from,
                                                 highlight.to), rels, "remove")
             st2 == Recreate(st1, allHighlightsAtPosition, highlight, labelId, rels)
             st3 == markHighlightAsRemoved(
                        [st2 EXCEPT !.map = deleteHighlight(@, highlight.id)],
                        highlight.id)
         IN RemoveEach(st3, Tail(hs), highlightsAt, labelId, rels)

\* the user clicks the toolbar button of labelId with the cursor in the
\* character at position cursor, on a highlight of that label
ClickRemove(labelId, cursor) ==
    /\ ~pendingRemoval
    /\ cursor \in 1..Len(DocCells(editorDoc))
    /\ LET highlightsAt == getEntityReferencesAt(editorDoc, cursor)
           OfType(h) == getHighlight(highlightMap, h.id) = labelId
           highlightsOfType == SelectSeq(highlightsAt, OfType)
           st == RemoveEach(StOf, highlightsOfType, highlightsAt, labelId,
                            session.relationships)
       IN /\ highlightsOfType # <<>>
          /\ AfterEvent([st EXCEPT !.timers = @ \cup
                            {NewTimer("save", "", SaveDelayMs, session.relationships)}],
                        "remove")
          /\ removal' = [ids |-> removal.ids \cup
                                     {highlightsOfType[k].id : k \in DOMAIN highlightsOfType},
                          before |-> stored.highlights,
                          clean |-> ~removal.edited /\ Quiescent,
                          edited |-> TRUE]
    /\ pendingRemoval' = TRUE
    /\ UNCHANGED <<stored, session, liveDirty, age, error,
                   pureVars, delVars>>

\* variant: the callback of the delayed save leaves pendingRemoval alone
PendingRemovalKept(kind, pending) == pending

\* pendingRemoval after a timer callback: the delayed save resets it
PendingRemovalAfter(kind, pending) == IF kind = "save" THEN FALSE ELSE pending

\* a setTimeout callback runs
FireTimer ==
    \E t \in timers :
        /\ t.left = 0
        /\ LET st == IF t.kind = "save"
                     THEN handleEditorChange([StOf EXCEPT !.timers = timers \ {t}],
                                             editorDoc, OnSaveOptions(TRUE), t.rels, "save")
                     ELSE [StOf EXCEPT !.timers = timers \ {t}]
           IN /\ Len(inflight) + Len(st.ops) <= MaxInFlight
              /\ highlightMap' = st.map
              /\ inflight' = inflight \o st.ops
              /\ timers' = st.timers
              /\ pendingHighlightRemoval' = IF t.kind = "gate" THEN FALSE ELSE st.gate
              /\ last' = [NoLast EXCEPT !.event = t.kind, !.passes = st.passes]
        /\ recentlyRemoved' = IF t.kind = "unmark" THEN Expire(recentlyRemoved, t.id)
                              ELSE recentlyRemoved
        /\ pendingRemoval' = PendingRemovalAfter(t.kind, pendingRemoval)
        /\ UNCHANGED <<editorDoc, editorState, stored, session, freshUsed, liveDirty,
                       age, removal, error,
                   pureVars, delVars>>

\* time passes while no timer is due
Tick ==
    /\ timers # {}
    /\ \A t \in timers : t.left > 0
    /\ timers' = {[t EXCEPT !.left = IF @ > Quantum THEN @ - Quantum ELSE 0] : t \in timers}
    /\ last' = [NoLast EXCEPT !.event = "tick"]
    /\ UNCHANGED <<editorDoc, editorState, highlightMap, recentlyRemoved, stored,
                   session, inflight, pendingRemoval, pendingHighlightRemoval,
                   freshUsed, liveDirty, age, removal, error,
                   pureVars, delVars>>

\* updateAnalysedContent: db.sessions.get resolved for the oldest call that
\* waits for it, and the call ran up to its write
UacGet ==
    \E i \in DOMAIN inflight :
        /\ inflight[i].pc = "get"
        /\ inflight[i].origin # "analysis"
        /\ \A j \in 1..(i - 1) : inflight[j].pc = "put"
        /\ LET u == UpdateOf(stored, inflight[i], highlightMap, recentlyRemoved)
           IN /\ inflight' = [inflight EXCEPT ![i] = [@ EXCEPT !.pc = "put",
                                                              !.before = stored.highlights,
                                                              !.update = u.update]]
              /\ highlightMap' = u.map
              /\ last' = [NoLast EXCEPT !.event = "get", !.passes = u.passes]
        /\ UNCHANGED <<editorDoc, editorState, recentlyRemoved, stored, session,
                       timers, pendingRemoval, pendingHighlightRemoval, freshUsed,
                       liveDirty, age, removal, error,
                   pureVars, delVars>>

\* variant: the write of the newest call overtakes those of the older calls
UacPutNewestFirst ==
    /\ inflight # <<>>
    /\ inflight[Len(inflight)].pc = "put"
    /\ stored' = inflight[Len(inflight)].update
    /\ inflight' = SubSeq(inflight, 1, Len(inflight) - 1)
    /\ liveDirty' = TRUE
    /\ last' = [NoLast EXCEPT !.event = "put",
                              !.origin = inflight[Len(inflight)].origin,
                              !.putBefore = inflight[Len(inflight)].before,
                              !.putGiven = inflight[Len(inflight)].highlights]
    /\ UNCHANGED <<editorDoc, editorState, highlightMap, recentlyRemoved, session,
                   timers, pendingRemoval, pendingHighlightRemoval, freshUsed,
                   age, removal, error,
                   pureVars, delVars>>

\* updateAnalysedContent: the write of the oldest call
UacPut ==
    /\ inflight # <<>>
    /\ Head(inflight).pc = "put"
    /\ stored' = Head(inflight).update
    /\ inflight' = Tail(inflight)
    /\ liveDirty' = TRUE
    /\ last' = [NoLast EXCEPT !.event = "put", !.origin = Head(inflight).origin,
                              !.putBefore = Head(inflight).before,
                              !.putGiven = Head(inflight).highlights]
    /\ UNCHANGED <<editorDoc, editorState, highlightMap, recentlyRemoved, session,
                   timers, pendingRemoval, pendingHighlightRemoval, freshUsed,
                   age, removal, error,
                   pureVars, delVars>>

\* the live queries of EditorPage re-run; the Editor gets new props and its
\* effects run
LiveQueryRefresh ==
    /\ liveDirty
    /\ LET e == EffectiveContent(stored, highlightMap, recentlyRemoved)
       IN /\ editorState' = StateAfterProps(editorState, stored.content, e.highlights)
          /\ last' = [NoLast EXCEPT !.event = "refresh", !.passes = e.passes]
    /\ highlightMap' = SyncHighlightMap(editorState')
    /\ session' = stored
    /\ liveDirty' = FALSE
    /\ UNCHANGED <<editorDoc, recentlyRemoved, stored, inflight, timers,
                   pendingRemoval, pendingHighlightRemoval, freshUsed, age,
                   removal, error,
                   pureVars, delVars>>

Next ==
    \/ \E j \in 1..MaxNodes + 1 : DeleteNode(j)
    \/ PastePlain
    \/ SelectionChange
    \/ \E labelId \in Labels : \E cursor \in 1..MaxBlockLen : ClickRemove(labelId, cursor)
    \/ FireTimer
    \/ Tick
    \/ UacGet
    \/ UacPut
    \/ LiveQueryRefresh

Spec == SessInit /\ [][Next]_vars

----------------------------------------------------------------------------
(* Properties of createDocumentWithMarks and extraction (SpecPure) *)

IsParagraph(b) == b.type = "paragraph"

\* the annotation's text is found in some paragraph of the document
Locatable(doc, a) ==
    a.text # <<>> /\ \E i \in DOMAIN doc :
        IsParagraph(doc[i]) /\ Includes(ParagraphText(doc[i]), a.text)

AllLocatable(doc, anns) == \A k \in DOMAIN anns : Locatable(doc, anns[k])

Unmarked(doc) == \A i \in DOMAIN doc : \A j \in DOMAIN doc[i].content :
                     doc[i].content[j].marks = <<>>

DistinctIds(anns) == \A j, k \in DOMAIN anns : j # k => anns[j].id # anns[k].id

\* the located range of an annotation in a paragraph text: [start, end)
LocStart(ptext, a) == IndexOf(ptext, a.text)
LocEnd(ptext, a) == IndexOf(ptext, a.text) + Len(a.text)

Disjoint(ptext, a, b) ==
    LocEnd(ptext, a) <= LocStart(ptext, b) \/ LocEnd(ptext, b) <= LocStart(ptext, a)

NonOverlapping(doc, anns) ==
    \A i \in DOMAIN doc : \A j, k \in DOMAIN anns :
        (/\ j # k
         /\ IsParagraph(doc[i])
         /\ Includes(ParagraphText(doc[i]), anns[j].text)
         /\ Includes(ParagraphText(doc[i]), anns[k].text))
        => Disjoint(ParagraphText(doc[i]), anns[j], anns[k])

\* per character of a block, the sequence of mark ids of the node that holds it
RECURSIVE CharMarks(_)
CharMarks(nodes) ==
    IF nodes = <<>> THEN <<>>
    ELSE LET n == Head(nodes)
             ids == [k \in DOMAIN n.marks |-> n.marks[k].id]
         IN [p \in 1..Len(n.text) |-> ids] \o CharMarks(Tail(nodes))

Core(h) == [id |-> h.id, labelType |-> h.labelType, text |-> h.text]
CoreSet(hs) == {Core(hs[k]) : k \in DOMAIN hs}

\* C1: createDocumentWithMarks is idempotent: applying it again with the same
\* highlight list to its own output yields the same document (same text nodes,
\* same marks on each node, same order), for highlights locatable in d.
C1_Idempotent ==
    (ppc \in {"reapplied", "extracted"} /\ AllLocatable(inDoc, inAnns))
        => out2 = out1

C1_Witness ==
    /\ ppc = "reapplied"
    /\ Len(inAnns) = 2
    /\ AllLocatable(inDoc, inAnns)
    /\ ~Unmarked(inDoc)
    /\ out1 # inDoc
    /\ \E k \in DOMAIN out1[1].content : Len(out1[1].content[k].marks) >= 2

\* C2: round trip: for an unmarked document and a highlight list (distinct
\* ids, non-empty labels, none recently removed) whose texts are located at
\* pairwise non-overlapping ranges, extraction over the annotated document
\* returns exactly the highlights of the list: same ids, labels and texts.
C2_RoundTrip ==
    (/\ ppc = "extracted"
     /\ Unmarked(inDoc)
     /\ AllLocatable(inDoc, inAnns)
     /\ NonOverlapping(inDoc, inAnns)
     /\ DistinctIds(inAnns)
     /\ \A k \in DOMAIN inAnns :
            inAnns[k].labelType # "" /\ inAnns[k].id \notin recentlyRemoved)
        => /\ CoreSet(extracted) = CoreSet(inAnns)
           /\ Len(extracted) = Len(inAnns)

C2_Witness ==
    /\ ppc = "extracted"
    /\ Unmarked(inDoc)
    /\ Len(inAnns) = 2
    /\ AllLocatable(inDoc, inAnns)
    /\ NonOverlapping(inDoc, inAnns)
    /\ DistinctIds(inAnns)
    /\ Len(extracted) = 2
    /\ Len(inDoc) = 2
    /\ Includes(ParagraphText(inDoc[1]), inAnns[1].text)
    /\ Includes(ParagraphText(inDoc[2]), inAnns[2].text)

\* two annotations whose located ranges partially overlap in block i
PartialOverlap(ptext, a, b) ==
    /\ Includes(ptext, a.text) /\ Includes(ptext, b.text)
    /\ LocStart(ptext, a) < LocStart(ptext, b)
    /\ LocStart(ptext, b) < LocEnd(ptext, a)
    /\ LocEnd(ptext, a) < LocEnd(ptext, b)

ExpectedIdsAt(ptext, a, b, p) ==
    (IF LocStart(ptext, a) < p /\ p <= LocEnd(ptext, a) THEN {a.id} ELSE {})
    \cup (IF LocStart(ptext, b) < p /\ p <= LocEnd(ptext, b) THEN {b.id} ELSE {})

\* C3: overlap correctness: when two highlights' located ranges partially
\* overlap in a block, the overlapping substring carries both marks and each
\* non-overlapping remainder carries exactly the mark of its own highlight.
C3_OverlapCorrect ==
    (/\ ppc # "start"
     /\ Unmarked(inDoc)
     /\ Len(inAnns) = 2
     /\ DistinctIds(inAnns))
        => \A i \in DOMAIN inDoc : \A j, k \in DOMAIN inAnns :
              LET ptext == ParagraphText(inDoc[i])
              IN (IsParagraph(inDoc[i]) /\ PartialOverlap(ptext, inAnns[j], inAnns[k]))
                 => \A p \in 1..Len(ptext) :
                        Range(CharMarks(out1[i].content)[p])
                            = ExpectedIdsAt(ptext, inAnns[j], inAnns[k], p)

\* C12: the extractor and the annotator agree on positions: the range that
\* extractHighlightsFromContentMarks reports for a marked text node of a
\* paragraph is the range createDocumentWithMarks computes for that node when
\* it collects the existing highlights (the sum of the lengths of all
\* preceding text nodes of the paragraph).
C12_PositionsAgree ==
    ppc = "extracted" =>
        \A k \in DOMAIN extracted : \A b \in DOMAIN out1 :
            LET h == extracted[k]
                existing == ExistingHighlights(out1[b].content, 0)
            IN (/\ IsParagraph(out1[b])
                /\ \E j \in DOMAIN existing : existing[j].id = h.id)
               => \E j \in DOMAIN existing :
                      /\ existing[j].id = h.id
                      /\ existing[j].text = h.text
                      /\ existing[j].startIndex = h.startIndex
                      /\ existing[j].endIndex = h.endIndex

\* the text nodes of a document in document order, as <<block, node>>
RECURSIVE NodesFrom(_, _, _)
NodesFrom(doc, b, j) ==
    IF b > Len(doc) THEN <<>>
    ELSE IF j > Len(doc[b].content) THEN NodesFrom(doc, b + 1, 1)
    ELSE <<<<b, j>>>> \o NodesFrom(doc, b, j + 1)

Carries(doc, p, id) ==
    /\ doc[p[1]].content[p[2]].text # <<>>
    /\ HasMark(doc[p[1]].content[p[2]], id)

\* the text nodes that carry a mark of this id, in document order
Carriers(doc, id) ==
    LET Is(p) == Carries(doc, p, id)
    IN SelectSeq(NodesFrom(doc, 1, 1), Is)

\* the total length of the marked text nodes before node j of a block
RECURSIVE MarkedLenBefore(_, _)
MarkedLenBefore(nodes, j) ==
    IF j <= 1 THEN 0
    ELSE MarkedLenBefore(nodes, j - 1)
         + (IF nodes[j - 1].marks # <<>> THEN Len(nodes[j - 1].text) ELSE 0)

\* C13: extraction returns at most one highlight per mark id; when several
\* text nodes carry a mark of the same id, the highlight is that of the first
\* node in document order: its text, and the range extraction gives that node.
C13_OnePerId ==
    ppc = "extracted" =>
        /\ \A k, l \in DOMAIN extracted :
               extracted[k].id = extracted[l].id => k = l
        /\ \A k \in DOMAIN extracted :
               LET h == extracted[k]
                   first == Head(Carriers(out1, h.id))
                   nodes == out1[first[1]].content
               IN /\ Carriers(out1, h.id) # <<>>
                  /\ h.text = nodes[first[2]].text
                  /\ h.startIndex = MarkedLenBefore(nodes, first[2])
                  /\ h.endIndex = h.startIndex + Len(h.text)

\* two text nodes of different text carry the id of a returned highlight
C13_Witness ==
    /\ ppc = "extracted"
    /\ \E k \in DOMAIN extracted :
           LET cs == Carriers(out1, extracted[k].id)
           IN /\ Len(cs) = 2
              /\ out1[cs[1][1]].content[cs[1][2]].text
                     # out1[cs[2][1]].content[cs[2][2]].text
              /\ extracted[k].text = out1[cs[1][1]].content[cs[1][2]].text

\* the mark of this id on the first text node that carries one
FirstMark(doc, id) ==
    LET first == Head(Carriers(doc, id))
        marks == doc[first[1]].content[first[2]].marks
        k == CHOOSE i \in DOMAIN marks :
                 /\ marks[i].id = id
                 /\ \A j \in 1..(i - 1) : marks[j].id # id
    IN marks[k]

\* C14: the label of an extracted highlight is the mark's labelType
\* attribute if non-empty, else its type attribute if non-empty, else the
\* highlight map's entry for the id (as it was before the pass) if present,
\* else "claim"; a later source is used only when all earlier ones are missing.
C14_LabelResolution ==
    [][(ppc = "reapplied" /\ ppc' = "extracted") =>
          \A k \in DOMAIN extracted' :
              LET h == extracted'[k]
                  m == FirstMark(out1, h.id)
              IN h.labelType =
                     IF m.labelType # "" THEN m.labelType
                     ELSE IF m.type # "" THEN m.type
                     ELSE IF highlightMap[h.id] # "" THEN highlightMap[h.id]
                     ELSE "claim"]_vars

\* a mark without labelType and type got the label of the highlight map,
\* which is not the fallback label
C14_Witness ==
    /\ ppc = "extracted"
    /\ \E k \in DOMAIN extracted :
           /\ FirstMark(out1, extracted[k].id) = MarkBare
           /\ extracted[k].labelType = "evidence"

\* C15: immediately after extractHighlightsFromContentMarks returns, the
\* highlight map maps h.id to h.labelType for every returned highlight h.
C15_WrittenBack ==
    ppc = "extracted" =>
        \A k \in DOMAIN extracted :
            getHighlight(highlightMap, extracted[k].id) = extracted[k].labelType

\* a label that came from the type attribute or from the fallback, for an id
\* the highlight map did not hold before the pass, is in the map afterwards
C15_Witness ==
    /\ ppc = "extracted"
    /\ \E k \in DOMAIN extracted :
           /\ extracted[k].id \notin {inAnns[i].id : i \in DOMAIN inAnns}
           /\ FirstMark(out1, extracted[k].id).labelType = ""
           /\ getHighlight(highlightMap, extracted[k].id) = extracted[k].labelType

----------------------------------------------------------------------------
(* SpecGrace: the recently-removed set against extraction passes over a     *)
(* document that keeps its marks.  markHighlightAsRemoved is called as      *)
(* handleHighlight calls it: for a highlight that is not being removed      *)
(* already.                                                                 *)

GraceInit ==
    /\ ppc = "grace"
    /\ inDoc \in SessionDocs
    /\ inAnns = <<>>
    /\ out1 = <<>>
    /\ out2 = <<>>
    /\ extracted = <<>>
    /\ regCall = NoCall /\ effective = NoEffective
    /\ highlightMap = SyncHighlightMap(inDoc)
    /\ recentlyRemoved = {}
    /\ SessIdle
    /\ DeleteIdle

GraceFrame ==
    UNCHANGED <<ppc, inDoc, inAnns, out1, out2, regCall, effective, editorDoc, editorState, stored,
                session, inflight, pendingRemoval, pendingHighlightRemoval,
                freshUsed, liveDirty, error, removal, delVars>>

GMark(id) ==
    /\ id \in DocIds(inDoc)
    /\ id \notin recentlyRemoved
    /\ LET st == markHighlightAsRemoved(StOf, id)
       IN /\ recentlyRemoved' = st.removed
          /\ timers' = st.timers
    /\ age' = [age EXCEPT ![id] = 0]
    /\ last' = [NoLast EXCEPT !.event = "mark"]
    /\ UNCHANGED <<extracted, highlightMap>>
    /\ GraceFrame

GExtract ==
    /\ LET r == extractHighlightsFromContentMarks(inDoc, highlightMap, recentlyRemoved)
       IN /\ extracted' = r.hl
          /\ highlightMap' = r.map
    /\ last' = [NoLast EXCEPT !.event = "pass", !.passes = 1]
    /\ UNCHANGED <<recentlyRemoved, timers, age>>
    /\ GraceFrame

GFire ==
    /\ \E t \in timers :
          /\ t.left = 0
          /\ recentlyRemoved' = Expire(recentlyRemoved, t.id)
          /\ timers' = timers \ {t}
    /\ last' = [NoLast EXCEPT !.event = "unmark"]
    /\ UNCHANGED <<extracted, highlightMap, age>>
    /\ GraceFrame

GTick ==
    /\ timers # {}
    /\ \A t \in timers : t.left > 0
    /\ timers' = {[t EXCEPT !.left = IF @ > Quantum THEN @ - Quantum ELSE 0] : t \in timers}
    /\ age' = [i \in Ids |-> IF age[i] < 0 THEN age[i]
                             ELSE MinN(GraceMs, age[i] + Quantum)]
    /\ last' = [NoLast EXCEPT !.event = "tick"]
    /\ UNCHANGED <<extracted, highlightMap, recentlyRemoved>>
    /\ GraceFrame

GraceNext ==
    \/ \E id \in Ids : GMark(id)
    \/ GExtract
    \/ GFire
    \/ GTick

SpecGrace == GraceInit /\ [][GraceNext]_vars

\* timers run and time passes
FairSpecGrace == SpecGrace /\ WF_vars(GFire) /\ WF_vars(GTick)

\* the ids whose grace window is running
InWindow == {i \in Ids : age[i] >= 0 /\ age[i] < GraceMs}

IdsOf(hs) == {hs[k].id : k \in DOMAIN hs}

C9_Expires == \A x \in Ids : (x \in recentlyRemoved) ~> (x \notin recentlyRemoved)

C9_Witness ==
    /\ ppc = "grace"
    /\ \E x \in Ids : age[x] = GraceMs /\ x \notin recentlyRemoved
    /\ \E y \in Ids : y \in recentlyRemoved

----------------------------------------------------------------------------
(* SpecDelete: deleteHighlightFromDB on a stored editor content record      *)

RecordHighlights ==
    {hs \in UNION {[1..k -> {[id |-> i, labelType |-> LabelOf(i)] : i \in {"h1", "h2", "h3"}}] :
                      k \in 0..MaxAnns + 1} :
        \A j, k \in DOMAIN hs : j # k => hs[j].id # hs[k].id}

RecordRelationships ==
    UNION {[1..k -> {Relationship(p[1], p[2]) :
                        p \in {q \in {"h1", "h2", "h3"} \X {"h1", "h2", "h3"} : q[1] # q[2]}}] :
              k \in 0..MaxAnns}

DeleteInit ==
    /\ dpc = "start"
    /\ currentRecord \in [id : {0, 1}, highlights : RecordHighlights,
                          relationships : RecordRelationships]
    /\ editorContent = currentRecord
    /\ deletedId = ""
    /\ highlightMap = SetAll(EmptyMap, currentRecord.highlights)
    /\ recentlyRemoved = {}
    /\ SessIdle
    /\ ppc = "idle" /\ inDoc = <<>> /\ inAnns = <<>>
    /\ out1 = <<>> /\ out2 = <<>> /\ extracted = <<>> /\ regCall = NoCall /\ effective = NoEffective

\* variant: only the relationships that start at the highlight are dropped
RelationshipsWithoutSource(rels, highlightId) ==
    LET Keep(rel) == rel.sourceHighlightId # highlightId
    IN SelectSeq(rels, Keep)

newHighlights(highlights, highlightId) ==
    LET Keep(h) == h.id # highlightId
    IN SelectSeq(highlights, Keep)

newRelationships(rels, highlightId) ==
    LET Keep(rel) == /\ rel.sourceHighlightId # highlightId
                     /\ rel.targetHighlightId # highlightId
    IN SelectSeq(rels, Keep)

\* variant: the highlight map is restored when the update rejects
deleteHighlightFromDBRollback(highlightId, updateRejects) ==
    /\ dpc = "start"
    /\ deletedId' = highlightId
    /\ IF currentRecord.id = 0
       THEN /\ dpc' = "threw"
            /\ UNCHANGED <<editorContent, highlightMap>>
       ELSE IF updateRejects
            THEN dpc' = "threw" /\ UNCHANGED <<editorContent, highlightMap>>
            ELSE /\ dpc' = "written"
                 /\ highlightMap' = deleteHighlight(highlightMap, highlightId)
                 /\ editorContent' =
                       [currentRecord EXCEPT
                           !.highlights = newHighlights(@, highlightId),
                           !.relationships = newRelationships(@, highlightId)]
    /\ UNCHANGED <<currentRecord, recentlyRemoved, pureVars, sessVars>>

\* deleteHighlightFromDB(highlightId, currentRecord); db.editorContent.update
\* resolves or rejects
deleteHighlightFromDB(highlightId, updateRejects) ==
    /\ dpc = "start"
    /\ deletedId' = highlightId
    /\ IF currentRecord.id = 0
       THEN /\ dpc' = "threw"
            /\ UNCHANGED <<editorContent, highlightMap>>
       ELSE /\ highlightMap' = deleteHighlight(highlightMap, highlightId)
            /\ IF updateRejects
               THEN dpc' = "threw" /\ UNCHANGED editorContent
               ELSE /\ dpc' = "written"
                    /\ editorContent' =
                          [currentRecord EXCEPT
                              !.highlights = newHighlights(@, highlightId),
                              !.relationships = newRelationships(@, highlightId)]
    /\ UNCHANGED <<currentRecord, recentlyRemoved, pureVars, sessVars>>

DeleteNext ==
    \E highlightId \in {"h1", "h2", "h3"} : \E updateRejects \in BOOLEAN :
        deleteHighlightFromDB(highlightId, updateRejects)

SpecDelete == DeleteInit /\ [][DeleteNext]_vars

\* C23: when the store rejects the update, deleteHighlightFromDB throws to its
\* caller and rolls nothing back: the id is gone from the highlight map and
\* the stored record is the one stored before the call.
C23_RejectedDeleteNotRolledBack ==
    [][(dpc = "start" /\ dpc' = "threw" /\ currentRecord.id # 0) =>
          /\ getHighlight(highlightMap', deletedId') = ""
          /\ editorContent' = editorContent]_vars

\* a rejected delete of a highlight that the record and the map both held
C23_Witness ==
    /\ dpc = "threw"
    /\ currentRecord.id # 0
    /\ deletedId \in IdsOf(currentRecord.highlights)
    /\ deletedId \in IdsOf(editorContent.highlights)
    /\ getHighlight(highlightMap, deletedId) = ""
    /\ \E k \in DOMAIN currentRecord.highlights :
          /\ currentRecord.highlights[k].id = deletedId
          /\ currentRecord.highlights[k].labelType # ""

Mentions(rel, id) == rel.sourceHighlightId = id \/ rel.targetHighlightId = id

\* C4: cascade delete: deleteHighlightFromDB(id, record) writes a record whose
\* highlight list no longer contains id and whose relationship list has lost
\* exactly the relationships with source or target id; every other highlight
\* and every unrelated relationship is kept unchanged.
C4_CascadeDelete ==
    dpc = "written" =>
        LET KeptH(h) == h.id # deletedId
            KeptR(rel) == ~Mentions(rel, deletedId)
        IN /\ editorContent.highlights = SelectSeq(currentRecord.highlights, KeptH)
           /\ editorContent.relationships = SelectSeq(currentRecord.relationships, KeptR)
           /\ editorContent.id = currentRecord.id

C4_Witness ==
    /\ dpc = "written"
    /\ deletedId \in IdsOf(currentRecord.highlights)
    /\ editorContent.highlights # <<>>
    /\ \E k \in DOMAIN currentRecord.relationships :
           currentRecord.relationships[k].targetHighlightId = deletedId
    /\ editorContent.relationships # <<>>
    /\ Len(editorContent.relationships) < Len(currentRecord.relationships)

----------------------------------------------------------------------------
(* Properties of the editing session (Spec) *)

\* C5: after a toolbar removal has been fully processed, the stored
\* relationship list contains no relationship whose source or target is the
\* removed highlight id.
C5_RelationshipsCascade ==
    (Quiescent /\ removal.clean) =>
        \A k \in DOMAIN stored.relationships : \A x \in removal.ids :
            ~Mentions(stored.relationships[k], x)

\* C6: after a toolbar removal of highlight x has been fully processed, the
\* stored highlight list is the previous list without x: x is absent and
\* every other previously stored highlight is still present.
C6_ListWithoutRemoved ==
    (Quiescent /\ removal.clean) =>
        IdsOf(stored.highlights) = IdsOf(removal.before) \ removal.ids

\* C7: when a content change arrives whose extraction yields no highlights
\* while the session has a non-empty previously known highlight list, the
\* reconciliation stores the previous list: the stored list does not become
\* empty because extraction returned nothing.
C7_FallbackOnEmptyExtraction ==
    (/\ last.event = "put"
     /\ last.origin = "edit"
     /\ removal.ids = {}
     /\ last.putGiven = <<>>
     /\ last.putBefore # <<>>)
        => stored.highlights = last.putBefore

\* C10: a selection-only change is a no-op: no extraction pass runs, nothing
\* is emitted to the persistence callback, and the highlight list and the
\* highlight map are left unchanged.
C10_SelectionNoOp ==
    [][SelectionChange =>
          /\ last'.passes = 0
          /\ last'.emitted = 0
          /\ inflight' = inflight
          /\ stored' = stored
          /\ highlightMap' = highlightMap]_vars

\* C18: while a pending-removal gate is set (pendingRemoval of
\* HighlightButtons or pendingHighlightRemoval of EditorPage), a content
\* change that arrives does not run an extraction pass.
C18_GateSuspends ==
    [][((pendingRemoval \/ pendingHighlightRemoval) /\ last'.event = "edit")
          => last'.passes = 0]_vars

\* the characters of a document with the set of mark ids on each
CharIds(doc) ==
    [p \in DOMAIN DocCells(doc) |->
        [ch |-> DocCells(doc)[p].ch,
         ids |-> {DocCells(doc)[p].marks[k].id : k \in DOMAIN DocCells(doc)[p].marks}]]

\* every content change so far has been taken up and written
AllPassesFinished ==
    /\ inflight = <<>>
    /\ \A t \in timers : t.kind # "save"
    /\ removal.edited
    /\ HasContent(editorDoc)

C21_EditsCoalesced ==
    [][(/\ last.event = "edit"
        /\ last.passes > 0
        /\ last'.event = "edit")
          => (last'.passes = 0 /\ Len(inflight') <= Len(inflight))]_vars

----------------------------------------------------------------------------
(* SpecGate: the editing session with the failures handleHighlight guards   *)
(* against, and the scheduling of timers and database requests              *)

\* handleHighlight, removal branch, when the view is missing or when every
\* removal step throws before it dispatches
ClickRemoveFails(labelId, cursor, failure) ==
    /\ ~pendingRemoval
    /\ cursor \in 1..Len(DocCells(editorDoc))
    /\ LET highlightsAt == getEntityReferencesAt(editorDoc, cursor)
           OfType(h) == getHighlight(highlightMap, h.id) = labelId
       IN SelectSeq(highlightsAt, OfType) # <<>>
    /\ IF failure = "view"
       THEN /\ pendingRemoval' = FALSE
            /\ timers' = timers
       ELSE /\ pendingRemoval' = TRUE
            /\ timers' = timers \cup
                   {NewTimer("save", "", SaveDelayMs, session.relationships)}
    /\ last' = [NoLast EXCEPT !.event = failure]
    /\ UNCHANGED <<editorDoc, editorState, highlightMap, recentlyRemoved, stored,
                   session, inflight, pendingHighlightRemoval, freshUsed,
                   liveDirty, age, removal, error,
                   pureVars, delVars>>

\* the callback of the delayed save throws before it calls onSave
SaveTimerFails ==
    \E t \in timers :
        /\ t.left = 0
        /\ t.kind = "save"
        /\ timers' = timers \ {t}
        /\ pendingRemoval' = FALSE
        /\ last' = [NoLast EXCEPT !.event = "savefailed"]
        /\ UNCHANGED <<editorDoc, editorState, highlightMap, recentlyRemoved,
                       stored, session, inflight, pendingHighlightRemoval,
                       freshUsed, liveDirty, age, removal, error,
                   pureVars, delVars>>

GateNext ==
    \/ \E j \in 1..MaxNodes + 1 : DeleteNode(j)
    \/ \E labelId \in Labels : \E cursor \in 1..MaxBlockLen : ClickRemove(labelId, cursor)
    \/ FireTimer
    \/ Tick
    \/ UacGet
    \/ UacPut
    \/ LiveQueryRefresh
    \/ \E labelId \in Labels : \E cursor \in 1..MaxBlockLen :
           \E failure \in {"view", "throws"} : ClickRemoveFails(labelId, cursor, failure)
    \/ SaveTimerFails

\* the page is loaded on a stored session without relationships
GateInit ==
    /\ SessInit
    /\ stored.relationships = <<>>

SpecGate == GateInit /\ [][GateNext]_vars

\* the callback of a timer that is due runs, and time passes
FairSpecGate ==
    /\ SpecGate
    /\ WF_vars(FireTimer \/ SaveTimerFails)
    /\ WF_vars(Tick)

\* C19: once pendingRemoval of HighlightButtons or pendingHighlightRemoval
\* of EditorPage is set it eventually becomes false again, also when a
\* removal step throws or the editor view is missing.
C19_GateCleared ==
    (pendingRemoval \/ pendingHighlightRemoval)
        ~> (~pendingRemoval /\ ~pendingHighlightRemoval)

\* the delayed save ran after a removal whose steps threw, and reset the flag
C19_Witness ==
    /\ last.event \in {"save", "savefailed"}
    /\ ~pendingRemoval
    /\ removal.ids = {}

\* C25: every relationship that getEffectiveContent returns has its source
\* and its target among the highlights returned with it.
C25_NoStaleRelationshipRead ==
    last.event = "refresh" =>
        LET e == EffectiveContent(stored, highlightMap, recentlyRemoved)
        IN \A k \in DOMAIN e.relationships :
              /\ e.relationships[k].sourceHighlightId \in IdsOf(e.highlights)
              /\ e.relationships[k].targetHighlightId \in IdsOf(e.highlights)

----------------------------------------------------------------------------
(* SpecSave: an editing session in which the store may reject the request   *)
(* of an updateAnalysedContent call                                         *)

\* db.sessions.get or db.sessions.update of the oldest call rejects: the call
\* throws into the try block of handleEditorChange, whose catch logs to the
\* console and whose finally clears the change id
UacRejects ==
    /\ inflight # <<>>
    /\ Head(inflight).origin # "call"
    /\ inflight' = Tail(inflight)
    /\ last' = [NoLast EXCEPT !.event = "rejected", !.origin = Head(inflight).origin,
                              !.putBefore = stored.highlights,
                              !.putGiven = Head(inflight).highlights]
    /\ UNCHANGED <<editorDoc, editorState, highlightMap, recentlyRemoved, stored,
                   session, timers, pendingRemoval, pendingHighlightRemoval,
                   freshUsed, liveDirty, error, age, removal, pureVars, delVars>>

SaveNext ==
    \/ \E j \in 1..MaxNodes + 1 : DeleteNode(j)
    \/ PastePlain
    \/ UacGet
    \/ UacPut
    \/ UacRejects
    \/ LiveQueryRefresh

SpecSave == GateInit /\ [][SaveNext]_vars

\* C24: when the write of an editor change is rejected by the store, the page
\* shows a failure signal: its error state is set once the rejection has been
\* handled.
C24_FailureSignalled ==
    (last.event = "rejected" /\ last.origin = "edit") => error # ""

----------------------------------------------------------------------------
(* SpecUac: one call of updateAnalysedContent on a stored session, with any *)
(* content and any highlight list the caller may pass                       *)

PlainAbc == Paragraph(<<TextNode(<<"a", "b", "c">>, <<>>)>>)

\* texts of the caller's highlights; c,a occurs in no document
UacTexts == {<<"a">>, <<"c">>, <<"b", "c">>, <<"c", "a">>}

\* the caller's entries; a partial entry carries an empty label
UacHighlights ==
    {[id |-> i, labelType |-> l, text |-> t,
      startIndex |-> 0, endIndex |-> Len(t)] :
        i \in {"h1", "h2", "h3"}, l \in Labels \cup {""}, t \in UacTexts}

UacLists == UNION {[1..k -> UacHighlights] : k \in 0..MaxAnns}

UacInit ==
    /\ \E doc \in SessionDocs \cup {PlainAbc} :
          /\ StoredOf(doc, <<>>).content = doc
          /\ stored = StoredOf(doc, <<>>)
    /\ session = stored
    /\ \E content \in SessionDocs \cup {PlainAbc} : \E highlights \in UacLists :
          inflight = <<NewOp(content, highlights, <<>>, "call")>>
    /\ highlightMap = SyncHighlightMap(stored.content)
    /\ recentlyRemoved = {}
    /\ editorDoc = <<>>
    /\ editorState = <<>>
    /\ timers = {}
    /\ pendingRemoval = FALSE
    /\ pendingHighlightRemoval = FALSE
    /\ freshUsed = 0
    /\ liveDirty = FALSE
    /\ error = ""
    /\ age = [i \in Ids |-> -1]
    /\ last = NoLast
    /\ removal = NoRemoval
    /\ PureIdle
    /\ DeleteIdle

UacNext ==
    \/ UacGet
    \/ UacPut

SpecUac == UacInit /\ [][UacNext]_vars

\* C11: on a call with an explicit non-empty highlight list,
\* updateAnalysedContent runs no extraction pass and stores exactly the
\* caller's list, same entries in the same order.
C11_ExplicitListStored ==
    /\ \A i \in DOMAIN inflight :
          (inflight[i].pc = "put" /\ inflight[i].highlights # <<>>) =>
              /\ inflight[i].update.highlights = inflight[i].highlights
              /\ (last.event = "get" => last.passes = 0)
    /\ (last.event = "put" /\ last.putGiven # <<>>) =>
          stored.highlights = last.putGiven

\* a stored list of two highlights that a scan of the content does not give
C11_Witness ==
    /\ last.event = "put"
    /\ Len(last.putGiven) = 2
    /\ stored.highlights = last.putGiven
    /\ IdsOf(extractHighlightsFromContentMarks(stored.content, EmptyMap, {}).hl)
           # IdsOf(last.putGiven)

\* the entries of a highlight list that carry the id
EntriesOf(list, id) == {k \in DOMAIN list : list[k].id = id}

\* C22: the caller's highlights are merged with the stored list by id: for an
\* id present in both, the stored result carries the incoming label when it
\* is non-empty and the label stored before when the incoming label is empty.
C22_MergeKeepsLabel ==
    (last.event = "put" /\ last.putGiven # <<>>) =>
        \A g \in DOMAIN last.putGiven : \A e \in DOMAIN last.putBefore :
            (/\ last.putGiven[g].id = last.putBefore[e].id
             /\ Cardinality(EntriesOf(last.putGiven, last.putGiven[g].id)) = 1
             /\ Cardinality(EntriesOf(last.putBefore, last.putBefore[e].id)) = 1)
              => \E k \in DOMAIN stored.highlights :
                    /\ stored.highlights[k].id = last.putGiven[g].id
                    /\ stored.highlights[k].labelType =
                          IF last.putGiven[g].labelType # ""
                          THEN last.putGiven[g].labelType
                          ELSE last.putBefore[e].labelType

\* C32: updateAnalysedContent called with an empty highlight list on a
\* session whose stored list is non-empty stores an empty list and the
\* caller's content as given, and runs neither extraction nor re-annotation.
C32_EmptyListIsRemoval ==
    /\ \A i \in DOMAIN inflight :
          (/\ inflight[i].pc = "put"
           /\ inflight[i].highlights = <<>>
           /\ inflight[i].before # <<>>) =>
              /\ inflight[i].update.highlights = <<>>
              /\ inflight[i].update.highlightCount = 0
              /\ inflight[i].update.content = inflight[i].content
              /\ (last.event = "get" => last.passes = 0)
    /\ (last.event = "put" /\ last.putGiven = <<>> /\ last.putBefore # <<>>) =>
          (stored.highlights = <<>> /\ stored.highlightCount = 0)

\* an empty list was stored with a content that still carries marks
C32_Witness ==
    /\ last.event = "put"
    /\ last.putGiven = <<>>
    /\ last.putBefore # <<>>
    /\ stored.highlights = <<>>
    /\ NodeMarks(stored.content) # <<>>

----------------------------------------------------------------------------
(* SpecRegistry: the functions of utils/highlightMap.ts called with any     *)
(* arguments, empty strings included                                        *)

RegIds == {"", "h1", "h2", "h3"}
RegLabels == Labels \cup {""}

RegInit ==
    /\ ppc = "registry"
    /\ highlightMap = EmptyMap
    /\ regCall = NoCall /\ effective = NoEffective
    /\ inDoc = <<>>
    /\ inAnns = <<>>
    /\ out1 = <<>>
    /\ out2 = <<>>
    /\ extracted = <<>>
    /\ recentlyRemoved = {}
    /\ SessIdle
    /\ DeleteIdle

RegFrame ==
    UNCHANGED <<ppc, inDoc, inAnns, out1, out2, extracted, effective,
                recentlyRemoved, sessVars, delVars>>

RegSet(id, labelType) ==
    /\ highlightMap' = setHighlight(highlightMap, id, labelType)
    /\ regCall' = [op |-> "setHighlight", id |-> id, labelType |-> labelType,
                   before |-> highlightMap, result |-> "", outcome |-> "returned"]
    /\ RegFrame

\* result "" stands for undefined
RegGet(id) ==
    /\ regCall' = [op |-> "getHighlight", id |-> id, labelType |-> "",
                   before |-> highlightMap,
                   result |-> getHighlight(highlightMap, id),
                   outcome |-> "returned"]
    /\ UNCHANGED highlightMap
    /\ RegFrame

RegDelete(id) ==
    /\ highlightMap' = deleteHighlight(highlightMap, id)
    /\ regCall' = [op |-> "deleteHighlight", id |-> id, labelType |-> "",
                   before |-> highlightMap,
                   result |-> deleteHighlightResult(highlightMap, id),
                   outcome |-> "returned"]
    /\ RegFrame

RegClear ==
    /\ highlightMap' = clearHighlights(highlightMap)
    /\ regCall' = [op |-> "clearHighlights", id |-> "", labelType |-> "",
                   before |-> highlightMap, result |-> "", outcome |-> "returned"]
    /\ RegFrame

RegNext ==
    \/ \E id \in RegIds : \E labelType \in RegLabels : RegSet(id, labelType)
    \/ \E id \in RegIds : RegGet(id)
    \/ \E id \in RegIds : RegDelete(id)
    \/ RegClear

SpecRegistry == RegInit /\ [][RegNext]_vars

\* C16: the highlight map functions validate their arguments: setHighlight
\* with an empty id or an empty label, getHighlight with an empty id and
\* deleteHighlight with an empty id leave the map unchanged, get returns
\* undefined, delete returns false, and none of the calls throws.
C16_ArgumentsValidated ==
    /\ (regCall.op = "setHighlight" /\ (regCall.id = "" \/ regCall.labelType = ""))
           => highlightMap = regCall.before
    /\ (regCall.op = "getHighlight" /\ regCall.id = "")
           => (regCall.result = "" /\ highlightMap = regCall.before)
    /\ (regCall.op = "deleteHighlight" /\ regCall.id = "")
           => (regCall.result = FALSE /\ highlightMap = regCall.before)
    /\ regCall.op # "none" => regCall.outcome = "returned"

\* setHighlight called with an empty label for an id that has an entry
C16_Witness ==
    /\ regCall.op = "setHighlight"
    /\ regCall.id # ""
    /\ regCall.labelType = ""
    /\ regCall.before[regCall.id] # ""
    /\ highlightMap = regCall.before

----------------------------------------------------------------------------
(* Properties of updateAnalysedContent on a caller's list (SpecUac) *)

\* the call of updateAnalysedContent whose update has been computed
UacDone(op) == op.pc = "put" /\ op.highlights # <<>>

\* the highlights of the list whose text is found in no block of the content
Unlocatables(op) ==
    {k \in DOMAIN op.highlights : ~Locatable(op.content, op.highlights[k])}

\* C17: a highlight whose text is found in no block gets no mark in the
\* re-annotated document, raises no error and does not keep the other
\* highlights from being marked, and updateAnalysedContent still stores it in
\* the session's highlight list.
C17_LocationFailure ==
    /\ \A i \in DOMAIN inflight :
          LET op == inflight[i]
              reannotated == Len(op.before) <= Len(op.highlights)
              locatedIds == {op.highlights[k].id :
                                k \in DOMAIN op.highlights \ Unlocatables(op)}
          IN UacDone(op) =>
              /\ \A k \in Unlocatables(op) :
                    /\ (op.highlights[k].id \notin locatedIds \cup DocIds(op.content))
                           => op.highlights[k].id \notin DocIds(op.update.content)
                    /\ op.update.highlights[k] = op.highlights[k]
              /\ (reannotated /\ Unlocatables(op) # {})
                    => locatedIds \subseteq DocIds(op.update.content)
    /\ (last.event = "put" /\ last.putGiven # <<>>) =>
          \A k \in DOMAIN last.putGiven :
              ~Locatable(stored.content, last.putGiven[k])
                  => \E j \in DOMAIN stored.highlights :
                         stored.highlights[j] = last.putGiven[k]

\* the record to write holds a highlight that is found nowhere and has no
\* mark, next to one that was found and got its mark by this call
C17_Witness ==
    \E i \in DOMAIN inflight :
        LET op == inflight[i]
        IN /\ UacDone(op)
           /\ Len(op.highlights) = 2
           /\ ~Locatable(op.content, op.highlights[1])
           /\ Locatable(op.content, op.highlights[2])
           /\ op.highlights[1].id \notin DocIds(op.update.content)
           /\ op.highlights[2].id \notin DocIds(op.content)
           /\ op.highlights[2].id \in DocIds(op.update.content)
           /\ op.update.highlights = op.highlights

----------------------------------------------------------------------------
(* SpecLocate: createDocumentWithMarks on one plain paragraph and one        *)
(* annotation whose text may differ from the paragraph in case and spacing   *)

MaxLocLen == 3
LocChars == {"a", "A", "b", " "}
LocTexts == UNION {[1..k -> LocChars] : k \in 1..MaxLocLen}

LocInit ==
    /\ ppc = "start"
    /\ \E hay \in LocTexts : inDoc = Paragraph(<<TextNode(hay, <<>>)>>)
    /\ \E needle \in LocTexts :
          inAnns = <<[id |-> "h1", labelType |-> "claim", text |-> needle]>>
    /\ out1 = <<>>
    /\ out2 = <<>>
    /\ extracted = <<>>
    /\ regCall = NoCall /\ effective = NoEffective
    /\ highlightMap = EmptyMap
    /\ recentlyRemoved = {}
    /\ SessIdle
    /\ DeleteIdle

SpecLocate == LocInit /\ [][PureNext]_vars

\* the location step of createDocumentWithMarks: paragraphText.indexOf(text),
\* taken when it is >= 0
locate(needle, haystack) ==
    LET textIndex == IndexOf(haystack, needle)
    IN IF textIndex >= 0
       THEN [index |-> textIndex, length |-> Len(needle), matchType |-> "exact"]
       ELSE [index |-> -1, length |-> 0, matchType |-> "none"]

\* String.prototype.toLowerCase and trim, and the words of a text
LowerChar(c) == IF c = "A" THEN "a" ELSE IF c = "B" THEN "b" ELSE c
Lower(t) == [i \in DOMAIN t |-> LowerChar(t[i])]

RECURSIVE TrimLeft(_)
TrimLeft(t) == IF t # <<>> /\ Head(t) = " " THEN TrimLeft(Tail(t)) ELSE t

RECURSIVE TrimRight(_)
TrimRight(t) ==
    IF t # <<>> /\ t[Len(t)] = " " THEN TrimRight(SubSeq(t, 1, Len(t) - 1)) ELSE t

Trim(t) == TrimRight(TrimLeft(t))

\* the slices of the text that start and end on a word and hold whole words
WordSlices(t) ==
    LET starts == {p \in 1..Len(t) : t[p] # " " /\ (p = 1 \/ t[p - 1] = " ")}
        ends == {p \in 1..Len(t) : t[p] # " " /\ (p = Len(t) \/ t[p + 1] = " ")}
    IN {SubSeq(t, p[1], p[2]) : p \in {q \in starts \X ends : q[1] <= q[2]}}

ExactHit(needle, hay) == IndexOf(hay, needle) >= 0

NormalizedHit(needle, hay) ==
    /\ Trim(Lower(needle)) # <<>>
    /\ IndexOf(Lower(hay), Trim(Lower(needle))) >= 0

PartialHits(needle, hay) ==
    {s \in WordSlices(Lower(needle)) : IndexOf(Lower(hay), s) >= 0}

\* the positions of the paragraph whose character carries a mark of the id
MarkedPositions(doc, id) ==
    {p \in DOMAIN DocCells(doc) : HasMark(DocCells(doc)[p], id)}

\* C26: createDocumentWithMarks locates a highlight's text through the
\* locator's tiers: a text that is found in the paragraph only after case and
\* whitespace normalization still gets its mark, on the matched range.
C26_NormalizedTextMarked ==
    ppc = "applied" =>
        LET needle == inAnns[1].text
            hay == ParagraphText(inDoc[1])
            n == Trim(Lower(needle))
            at == IndexOf(Lower(hay), n)
        IN (~ExactHit(needle, hay) /\ NormalizedHit(needle, hay)) =>
              MarkedPositions(out1, inAnns[1].id) = (at + 1)..(at + Len(n))

\* C27: locate(needle, haystack) tries the exact, the normalized and the
\* partial tier in this order, the first hit wins, and it returns index -1
\* with matchType none when no tier hits.
C27_ThreeTiers ==
    ppc = "applied" =>
        LET needle == inAnns[1].text
            hay == ParagraphText(inDoc[1])
            n == Trim(Lower(needle))
            r == locate(needle, hay)
        IN /\ ExactHit(needle, hay) =>
                r = [index |-> IndexOf(hay, needle), length |-> Len(needle),
                     matchType |-> "exact"]
           /\ (~ExactHit(needle, hay) /\ NormalizedHit(needle, hay)) =>
                r = [index |-> IndexOf(Lower(hay), n), length |-> Len(n),
                     matchType |-> "normalized"]
           /\ (/\ ~ExactHit(needle, hay)
               /\ ~NormalizedHit(needle, hay)
               /\ PartialHits(needle, hay) # {}) =>
                /\ r.matchType = "partial"
                /\ \E s \in PartialHits(needle, hay) :
                      /\ \A u \in PartialHits(needle, hay) : Len(u) <= Len(s)
                      /\ r.length = Len(s)
                      /\ SubSeq(Lower(hay), r.index + 1, r.index + r.length) = s
           /\ (/\ ~ExactHit(needle, hay)
               /\ ~NormalizedHit(needle, hay)
               /\ PartialHits(needle, hay) = {}) =>
                (r.index = -1 /\ r.matchType = "none")
           /\ (r.matchType = "none") = (MarkedPositions(out1, inAnns[1].id) = {})

----------------------------------------------------------------------------
(* Marks and highlight map entries over the editing session (Spec) *)

\* C33: the delayed save of a toolbar removal arrives at handleEditorChange
\* with skipExtraction set: it runs no extraction pass and it sets
\* pendingHighlightRemoval.
C33_SaveSkipsExtraction ==
    last.event = "save" => (pendingHighlightRemoval /\ last.passes = 0)

\* C36: when the Editor loads with a highlight list, every highlight of the
\* list whose text occurs in the document carries its mark in the document of
\* the editor state that the effect sets.
C36_AllInitialHighlightsMarked ==
    last.event \in {"none", "refresh"} =>
        LET hs == EffectiveContent(stored, highlightMap, recentlyRemoved).highlights
        IN \A k \in DOMAIN hs :
              (/\ hs[k].text # <<>>
               /\ hs[k].labelType # ""
               /\ Includes(ParagraphText(stored.content[1]), hs[k].text))
                  => hs[k].id \in DocIds(editorState)

\* C28: a toolbar removal leaves the mark of every highlight it does not
\* remove in the document, under the same id and on the same range, also when
\* that highlight covers the range of the removed one.
C28_OtherMarksKept ==
    [][last'.event = "remove" =>
          \A id \in DocIds(editorDoc) \ removal'.ids :
              MarkedPositions(editorDoc', id) = MarkedPositions(editorDoc, id)]_vars

\* C29: an entry of the highlight map lives until it is deleted or the map
\* is reset: a document edit, a selection change or a re-render without any
\* removal never drops the entry of a highlight whose mark is in the document
\* before and after the step.
C29_EntryOutlivesEdits ==
    [][last'.event \in {"edit", "selection", "refresh"} =>
          \A id \in DocIds(editorDoc) \cap DocIds(editorDoc') :
              getHighlight(highlightMap, id) # "" =>
                  getHighlight(highlightMap', id) = getHighlight(highlightMap, id)]_vars

----------------------------------------------------------------------------
(* One range per highlight (SpecPure) *)

\* C30: in createDocumentWithMarks(d, h) on an unmarked d, the text nodes that
\* carry the mark of one highlight id lie in one block and follow one another
\* there, also when the text of the highlight occurs in several blocks.
C30_OneRangePerHighlight ==
    (ppc = "applied" /\ Unmarked(inDoc) /\ DistinctIds(inAnns)) =>
        \A k \in DOMAIN inAnns :
            LET c == Carriers(out1, inAnns[k].id)
            IN \A i \in 1..(Len(c) - 1) :
                  /\ c[i + 1][1] = c[i][1]
                  /\ c[i + 1][2] = c[i][2] + 1

----------------------------------------------------------------------------
(* SpecLoad: getEffectiveContent on a stored session; stored = NoStored is   *)
(* a session without analysed content, inDoc is its input content            *)

\* getEffectiveContent(sessionId), after getSession returned the session
getEffectiveContent(analysed, input, map, removed) ==
    IF analysed # NoStored
    THEN LET e == EffectiveContent(analysed, map, removed)
         IN [content |-> analysed.content, highlights |-> e.highlights,
             relationships |-> e.relationships, hasHighlights |-> TRUE,
             passes |-> e.passes, map |-> e.map]
    ELSE [content |-> input, highlights |-> <<>>, relationships |-> <<>>,
          hasHighlights |-> FALSE, passes |-> 0, map |-> map]

LoadContents == SessionDocs \cup {PlainAbc}

\* stored lists: none, the list the marks give, or one entry of any kind
LoadLists(doc) ==
    {<<>>, extractHighlightsFromContentMarks(doc, EmptyMap, {}).hl}
        \cup {<<h>> : h \in UacHighlights}

LoadInit ==
    /\ ppc = "load"
    /\ inDoc \in {PlainAbc, Paragraph(<<TextNode(<<"a">>, <<>>)>>)}
    /\ \/ stored = NoStored
       \/ \E doc \in LoadContents : \E hl \in LoadLists(doc) :
             stored = [content |-> doc, highlights |-> hl, relationships |-> <<>>,
                       highlightCount |-> Len(hl),
                       sessionHighlightCount |-> Len(hl)]
    /\ session = stored
    /\ recentlyRemoved \in {{}, {"h1"}}
    /\ highlightMap = EmptyMap
    /\ inAnns = <<>>
    /\ out1 = <<>>
    /\ out2 = <<>>
    /\ extracted = <<>>
    /\ regCall = NoCall
    /\ effective = NoEffective
    /\ editorDoc = <<>>
    /\ editorState = <<>>
    /\ inflight = <<>>
    /\ timers = {}
    /\ pendingRemoval = FALSE
    /\ pendingHighlightRemoval = FALSE
    /\ freshUsed = 0
    /\ liveDirty = FALSE
    /\ error = ""
    /\ age = [i \in Ids |-> -1]
    /\ last = NoLast
    /\ removal = NoRemoval
    /\ DeleteIdle

Load ==
    /\ ppc = "load"
    /\ LET r == getEffectiveContent(stored, inDoc, highlightMap, recentlyRemoved)
       IN /\ effective' = [content |-> r.content, highlights |-> r.highlights,
                           relationships |-> r.relationships,
                           hasHighlights |-> r.hasHighlights, passes |-> r.passes]
          /\ highlightMap' = r.map
    /\ ppc' = "loaded"
    /\ UNCHANGED <<inDoc, inAnns, out1, out2, extracted, regCall, recentlyRemoved,
                   sessVars, delVars>>

SpecLoad == LoadInit /\ [][Load]_vars

\* the ids of the marks of a one-paragraph document
MarkIds(doc) == {m.id : m \in Range(NodeMarks(doc))} \ {""}

\* C31: getEffectiveContent returns the stored highlight list when it is
\* non-empty; with an empty stored list it returns the highlights extracted
\* from the marks of the stored content; without analysed content it returns
\* the input content and no highlight list.
C31_RecoveryAtLoad ==
    ppc = "loaded" =>
        /\ (stored # NoStored /\ stored.highlights # <<>>) =>
              /\ effective.hasHighlights
              /\ effective.highlights = stored.highlights
              /\ effective.content = stored.content
              /\ effective.passes = 0
        /\ (stored # NoStored /\ stored.highlights = <<>>) =>
              /\ effective.hasHighlights
              /\ effective.highlights =
                    extractHighlightsFromContentMarks(stored.content, EmptyMap,
                                                      recentlyRemoved).hl
              /\ IdsOf(effective.highlights) = MarkIds(stored.content) \ recentlyRemoved
              /\ effective.content = stored.content
        /\ stored = NoStored =>
              /\ ~effective.hasHighlights
              /\ effective.highlights = <<>>
              /\ effective.content = inDoc

\* the stored list is empty and the highlights come from the marks
C31_Witness ==
    /\ ppc = "loaded"
    /\ stored # NoStored
    /\ stored.highlights = <<>>
    /\ Len(effective.highlights) = 2
    /\ effective.content = stored.content

----------------------------------------------------------------------------
(* Text and existing marks under createDocumentWithMarks (SpecPure) *)

SameTexts(din, dout) ==
    /\ Len(dout) = Len(din)
    /\ \A b \in DOMAIN din :
          IsParagraph(din[b]) => ParagraphText(dout[b]) = ParagraphText(din[b])

\* C34: createDocumentWithMarks never changes text: in every paragraph the
\* text nodes of the output concatenate to the text of the input, for any
\* highlight list.
C34_TextUnchanged ==
    /\ ppc \in {"applied", "reapplied", "extracted"} => SameTexts(inDoc, out1)
    /\ ppc \in {"reapplied", "extracted"} => SameTexts(out1, out2)


\* two highlights were applied to one paragraph, one inside the other's range
C34_Witness ==
    /\ ppc = "applied"
    /\ Len(inAnns) = 2
    /\ SameTexts(inDoc, out1)
    /\ \E b \in DOMAIN out1 :
          /\ IsParagraph(out1[b])
          /\ Len(out1[b].content) > Len(inDoc[b].content)
          /\ \E j \in DOMAIN out1[b].content : Len(out1[b].content[j].marks) >= 2


\* the characters of block b of the document, with their marks
BlockCells(doc, b) == NodeCells(doc[b].content)

Labelled(m) == m.id # "" /\ (m.labelType # "" \/ m.type # "")

\* C35: re-annotation removes no existing annotation: every character of the
\* input that carries a mark with an id and a label carries a mark of that id
\* in createDocumentWithMarks(d, h), for any non-empty h.
C35_ExistingMarksKept ==
    (ppc = "applied" /\ inAnns # <<>>) =>
        \A b \in DOMAIN inDoc :
            \A p \in DOMAIN BlockCells(inDoc, b) :
                \A k \in DOMAIN BlockCells(inDoc, b)[p].marks :
                    Labelled(BlockCells(inDoc, b)[p].marks[k]) =>
                        /\ p \in DOMAIN BlockCells(out1, b)
                        /\ HasMark(BlockCells(out1, b)[p],
                                   BlockCells(inDoc, b)[p].marks[k].id)

----------------------------------------------------------------------------
(* SpecRemark: the recently-removed set when markHighlightAsRemoved may be   *)
(* called again for an id whose window is still running                      *)

GRemark(id) ==
    /\ id \in DocIds(inDoc)
    /\ LET st == markHighlightAsRemoved(StOf, id)
       IN /\ recentlyRemoved' = st.removed
          /\ timers' = st.timers
    /\ age' = [age EXCEPT ![id] = 0]
    /\ last' = [NoLast EXCEPT !.event = "mark"]
    /\ UNCHANGED <<extracted, highlightMap>>
    /\ GraceFrame

RemarkNext ==
    \/ \E id \in Ids : GRemark(id)
    \/ GExtract
    \/ GFire
    \/ GTick

SpecRemark == GraceInit /\ [][RemarkNext]_vars

\* C37: every call markHighlightAsRemoved(id) keeps id in the recently-removed
\* set for the full grace window counted from that call, also when an earlier
\* window of the same id is still running.
C37_WindowFromLastCall ==
    ppc = "grace" => InWindow \subseteq recentlyRemoved

----------------------------------------------------------------------------
(* SpecCounts: saveAnalysis and updateAnalysedContent called in any order on *)
(* one session, the calls overlapping                                        *)

\* String.prototype.indexOf(needle, from)
IndexOfFrom(hay, needle, from) ==
    LET cands == {i \in from..(Len(hay) - Len(needle)) :
                     SubSeq(hay, i + 1, i + Len(needle)) = needle}
    IN IF cands = {} THEN -1 ELSE MinOf(cands)

\* the texts of the blocks joined by a newline
RECURSIVE FullText(_)
FullText(doc) ==
    IF doc = <<>> THEN <<>>
    ELSE IF Len(doc) = 1 THEN ParagraphText(doc[1])
    ELSE ParagraphText(doc[1]) \o <<"\n">> \o FullText(Tail(doc))

\* [...highlights].sort by fullText.indexOf(text): stable
RECURSIVE InsertByIndex(_, _, _)
InsertByIndex(sorted, h, full) ==
    IF sorted = <<>> THEN <<h>>
    ELSE IF IndexOf(full, Head(sorted).text) <= IndexOf(full, h.text)
         THEN <<Head(sorted)>> \o InsertByIndex(Tail(sorted), h, full)
         ELSE <<h>> \o sorted

RECURSIVE SortByIndex(_, _, _)
SortByIndex(done, todo, full) ==
    IF todo = <<>> THEN done
    ELSE SortByIndex(InsertByIndex(done, Head(todo), full), Tail(todo), full)

\* the loop of saveAnalysis over the sorted highlights of one paragraph
RECURSIVE SaveNodes(_, _, _)
SaveNodes(ptext, hs, currentPosition) ==
    IF hs = <<>>
    THEN IF currentPosition < Len(ptext)
         THEN <<TextNode(SubSeq(ptext, currentPosition + 1, Len(ptext)), <<>>)>>
         ELSE <<>>
    ELSE LET highlight == Head(hs)
             highlightStart == IndexOfFrom(ptext, highlight.text, currentPosition)
         IN IF highlightStart = -1 THEN SaveNodes(ptext, Tail(hs), currentPosition)
            ELSE (IF highlightStart > currentPosition
                  THEN <<TextNode(SubSeq(ptext, currentPosition + 1, highlightStart),
                                  <<>>)>>
                  ELSE <<>>)
                 \o <<TextNode(highlight.text,
                               <<Mark(highlight.id, highlight.labelType)>>)>>
                 \o SaveNodes(ptext, Tail(hs), highlightStart + Len(highlight.text))

\* saveAnalysis after getSession returned: the record it will write
SaveAnalysisOf(op) ==
    LET sortedHighlights == SortByIndex(<<>>, op.highlights, FullText(op.content))
    IN [content |-> [b \in DOMAIN op.content |->
                        IF op.content[b].type = "paragraph"
                        THEN [op.content[b] EXCEPT !.content =
                                 SaveNodes(ParagraphText(op.content[b]),
                                           sortedHighlights, 0)]
                        ELSE op.content[b]],
        highlights |-> op.highlights,
        relationships |-> op.relationships,
        highlightCount |-> Len(op.highlights),
        sessionHighlightCount |-> Len(op.highlights)]

CountContents ==
    {PlainAbc, Paragraph(<<TextNode(<<"a">>, <<H1>>), TextNode(<<"b", "c">>, <<>>)>>)}

CountH1 == [id |-> "h1", labelType |-> "claim", text |-> <<"a">>,
            startIndex |-> 0, endIndex |-> 1]
CountH2 == [id |-> "h2", labelType |-> "evidence", text |-> <<"b", "c">>,
            startIndex |-> 1, endIndex |-> 3]
CountH3 == [id |-> "h3", labelType |-> "evidence", text |-> <<"c", "a">>,
            startIndex |-> 0, endIndex |-> 2]

\* the lists the callers pass; the text of h3 occurs in no content
CountLists == {<<>>, <<CountH1>>, <<CountH3>>, <<CountH2, CountH1>>}

CountsInit ==
    /\ \E doc \in CountContents : stored = StoredOf(doc, <<>>)
    /\ session = stored
    /\ inflight = <<>>
    /\ highlightMap = SyncHighlightMap(stored.content)
    /\ recentlyRemoved = {}
    /\ editorDoc = <<>>
    /\ editorState = <<>>
    /\ timers = {}
    /\ pendingRemoval = FALSE
    /\ pendingHighlightRemoval = FALSE
    /\ freshUsed = 0
    /\ liveDirty = FALSE
    /\ error = ""
    /\ age = [i \in Ids |-> -1]
    /\ last = NoLast
    /\ removal = NoRemoval
    /\ PureIdle
    /\ DeleteIdle

CountsFrame ==
    UNCHANGED <<editorDoc, editorState, recentlyRemoved, stored, session, timers,
                pendingRemoval, pendingHighlightRemoval, freshUsed, liveDirty,
                error, age, removal, pureVars, delVars>>

\* a caller starts saveAnalysis(sessionId, model, prompt, content, highlights, [])
CallSaveAnalysis(content, highlights) ==
    /\ Len(inflight) < MaxInFlight
    /\ inflight' = Append(inflight, NewOp(content, highlights, <<>>, "analysis"))
    /\ last' = [NoLast EXCEPT !.event = "call", !.origin = "analysis"]
    /\ UNCHANGED highlightMap
    /\ CountsFrame

\* a caller starts updateAnalysedContent(sessionId, content, highlights, [])
CallUpdate(content, highlights) ==
    /\ Len(inflight) < MaxInFlight
    /\ inflight' = Append(inflight, NewOp(content, highlights, <<>>, "call"))
    /\ last' = [NoLast EXCEPT !.event = "call", !.origin = "call"]
    /\ UNCHANGED highlightMap
    /\ CountsFrame

\* saveAnalysis: getSession resolved for the oldest call that waits for it,
\* and the call ran up to its write
SaveAnalysisGet ==
    \E i \in DOMAIN inflight :
        /\ inflight[i].pc = "get"
        /\ inflight[i].origin = "analysis"
        /\ \A j \in 1..(i - 1) : inflight[j].pc = "put"
        /\ inflight' = [inflight EXCEPT ![i] = [@ EXCEPT !.pc = "put",
                                                          !.before = stored.highlights,
                                                          !.update = SaveAnalysisOf(@)]]
        /\ last' = [NoLast EXCEPT !.event = "get", !.origin = "analysis"]
        /\ UNCHANGED highlightMap
        /\ CountsFrame

CountsNext ==
    \/ \E content \in CountContents : \E highlights \in CountLists :
          CallSaveAnalysis(content, highlights)
    \/ \E content \in CountContents : \E highlights \in CountLists :
          CallUpdate(content, highlights)
    \/ SaveAnalysisGet
    \/ UacGet
    \/ UacPut

SpecCounts == CountsInit /\ [][CountsNext]_vars

\* C38: after any sequence of saveAnalysis and updateAnalysedContent calls the
\* stored session has highlightCount = analysedContent.highlightCount = the
\* length of analysedContent.highlights.
C38_CountsAgree ==
    /\ stored.sessionHighlightCount = Len(stored.highlights)
    /\ stored.highlightCount = Len(stored.highlights)

\* a write of updateAnalysedContent that followed an earlier write and
\* shortened the list
C38_Witness ==
    /\ last.event = "put"
    /\ last.origin = "call"
    /\ Len(last.putBefore) = 2
    /\ Len(stored.highlights) = 1
    /\ stored.sessionHighlightCount = 1

====
